---- MODULE Spec2Model ----
(***************************************************************************)
(* Model of opencode-sync-plugin: the live event path of src/src/index.ts  *)
(* (event handler, message reconstruction buffers, debounce timers,        *)
(* dedup sets, session statistics, outbound requests), and the bulk path  *)
(* of src/src/cli.ts (sync --new, --all, --force) with the tracking record *)
(* of its config helpers.                                                  *)
(*                                                                         *)
(* JavaScript values are encoded as follows:                               *)
(*   - a string field that may be undefined is a string, Undef when absent *)
(*   - an object or text field that may be undefined is an option:         *)
(*     None (absent) or Some(v)                                            *)
(*   - a numeric field read through `x || 0` is 0 when absent              *)
(*   - a Map is a function whose DOMAIN is the set of keys present         *)
(***************************************************************************)
EXTENDS Integers, Sequences, FiniteSets, TLC

VARIABLES
  configFile,        \* ~/.opensync/credentials.json: "missing" or Some(record)
  syncedSessions,    \* Set<string>
  syncedMessages,    \* Set<string>
  messagePartsText,  \* Map messageId -> string[]
  messageToolParts,  \* Map messageId -> tool part[]
  messageMetadata,   \* Map messageId -> {role, sessionId, info}
  sessionStats,      \* Map sessionId -> {model, promptTokens, ...}
  syncTimeouts,      \* Map messageId -> timer handle
  timers,            \* the runtime's pending timers: {id, messageId, remaining}
  outbox,            \* every fetch() issued so far, in order
  \* observers (history; never read by the handlers)
  nEvents,           \* number of events delivered and CLI commands run
  sinceLast,         \* per message: ms since its last accepted event (capped)
  attempts,          \* per message: timer callbacks run since its last accepted event
  sinceArm,          \* per message: ms since the last event that started its timer (capped)
  armAttempts,       \* per message: timer callbacks run since that event
  burstLen,          \* per message: events that started its timer, each with the previous timer running
  textHist,          \* per message: the text options of its text events before forwarding
  toolHist,          \* per message: its tool part events before forwarding, in order
  lastInfo,          \* per message: the info of its last accepted metadata event before forwarding
  createdObs,        \* per session: what its session.created events issued
  scen,              \* progress of the end-to-end scenario s1/m1/"Fix the bug"
  metaLog,           \* per session: the infos of its accepted metadata events, in order
  sentSessions,      \* the session records for which a submit-session request was issued, in order
  \* errors and request outcomes
  hostErrors,        \* errors that left a handler or a callback towards the host
  swallowed,         \* errors thrown in the event handler's body and caught by it
  settled,           \* the outcomes of the requests of outbox that have settled, in order
  lastEvent,         \* the last session event as the host sent it, the program state before it, the props of the event before
  \* the bulk path of the CLI (a separate process)
  trackingFile,      \* ~/.opensync/synced-sessions.json
  localStore,        \* the local OpenCode archive on disk
  cliOut,            \* every fetch() issued by the last `sync` command, in order
  lastRun,           \* what the last `sync` command loaded and selected
  proc               \* a `sync` command that runs step by step: where it is

progVars == <<configFile, syncedSessions, syncedMessages, messagePartsText,
              messageToolParts, messageMetadata, sessionStats, syncTimeouts,
              timers, outbox>>
burstObs == <<sinceLast, attempts, sinceArm, armAttempts, burstLen>>
obsVars == <<nEvents, burstObs, textHist, toolHist, lastInfo, createdObs, scen,
             metaLog, sentSessions>>
faultVars == <<hostErrors, swallowed, settled>>
cliVars == <<trackingFile, localStore, cliOut, lastRun, proc>>
vars == <<progVars, obsVars, faultVars, lastEvent, cliVars>>

----------------------------------------------------------------------------
(* Bounds of the model *)

\* inputs of one run: events delivered to the handler and CLI commands run
MaxEvents == 3

(* Program constants *)
DEBOUNCE_MS == 800

\* the clock advances in steps of half a debounce window
TickMs == DEBOUNCE_MS \div 2

----------------------------------------------------------------------------
(* Encoding of JavaScript values *)

Undef == "undefined"
None == << >>
Some(v) == << v >>
Has(o) == o # None
Get(o) == o[1]

EmptyMap == [k \in {} |-> {}]
MapSet(f, k, v) == [x \in (DOMAIN f) \cup {k} |-> IF x = k THEN v ELSE f[x]]
MapDel(f, k) == [x \in (DOMAIN f) \ {k} |-> f[x]]

Min(a, b) == IF a < b THEN a ELSE b
Max(a, b) == IF a > b THEN a ELSE b

\* texts are strings; TLC evaluates Len, Head, Tail, SubSeq and \o on them
WhiteSpace == {" ", "\n", "\t", "\r"}

RECURSIVE TrimStart(_)
TrimStart(s) ==
  IF s # "" /\ Head(s) \in WhiteSpace THEN TrimStart(Tail(s)) ELSE s

RECURSIVE TrimEnd(_)
TrimEnd(s) ==
  IF s # "" /\ SubSeq(s, Len(s), Len(s)) \in WhiteSpace
  THEN TrimEnd(SubSeq(s, 1, Len(s) - 1)) ELSE s

\* mutant: the text is tested without trimming it
Trim_Identity(s) == s

\* String.prototype.trim, as called on the text content at lines 409 and 455
Trim(s) == TrimEnd(TrimStart(s))

\* Array.prototype.join("") of an array of texts
RECURSIVE Join(_)
Join(arr) == IF arr = << >> THEN "" ELSE Head(arr) \o Join(Tail(arr))

----------------------------------------------------------------------------
(* Configuration file, src/src/config.ts *)

FullConfig == [convexUrl |-> "https://x.convex.cloud", apiKey |-> "osk_key"]
UrlOnlyConfig == [convexUrl |-> "https://x.convex.cloud", apiKey |-> Undef]
ClearedConfig == [convexUrl |-> Undef, apiKey |-> Undef]

\* getConfig(): null when the file is missing or holds no convexUrl
getConfig ==
  IF ~Has(configFile) THEN None
  ELSE IF Get(configFile).convexUrl = Undef THEN None
  ELSE configFile

\* mutant: the API key is not checked
ConfigIncomplete_NoKeyCheck == ~Has(getConfig)

\* the guard `!config?.apiKey || !config?.convexUrl` of both doSync functions
ConfigIncomplete ==
  \/ ~Has(getConfig)
  \/ Get(getConfig).apiKey = Undef
  \/ Get(getConfig).convexUrl = Undef

\* setConfig(cfg), called by the CLI's login
setConfig(cfg) == configFile' = Some(cfg)

\* clearConfig(), called by the CLI's logout: overwrites an existing file with {}
clearConfig ==
  configFile' = IF Has(configFile) THEN Some(ClearedConfig) ELSE configFile

----------------------------------------------------------------------------
(* Event payloads the host may deliver *)

MsgIds == {"m1", "m2"}
SessIds == {"s1", "s2"}
Texts == {" ", "Fix the bug"}

\* a message belongs to one session: every event for it carries that session's ID
SessionOf(m) == IF m = "m1" THEN "s1" ELSE "s2"

NoTokens == [input |-> 0, output |-> 0, cache |-> None,
             cache_creation |-> 0, cache_read |-> 0]

\* what a message.updated info carries besides id, sessionID and role
InfoExtras ==
  { [modelID |-> Undef, model |-> None, tokens |-> None, cost |-> 0, time |-> None],
    [modelID |-> "claude-sonnet-4-20250514", model |-> None,
     tokens |-> Some([input |-> 10, output |-> 20,
                      cache |-> Some([write |-> 1, read |-> 2]),
                      cache_creation |-> 0, cache_read |-> 0]),
     cost |-> 3, time |-> Some([created |-> 100, completed |-> 350])] }

NoExtras == [modelID |-> Undef, model |-> None, tokens |-> None, cost |-> 0, time |-> None]

MkInfo(i, s, r, x) ==
  [id |-> i, sessionID |-> s, role |-> r, modelID |-> x.modelID, model |-> x.model,
   tokens |-> x.tokens, cost |-> x.cost, time |-> x.time]

\* the `{}` stored as info of a placeholder metadata entry
EmptyInfo == MkInfo(Undef, Undef, Undef, NoExtras)

\* props.info of message.updated events: of assistant messages without and with
\* usage data, of user messages, and with a field missing
MetaInfos ==
  { MkInfo(i, SessionOf(i), "assistant", x) : i \in MsgIds, x \in InfoExtras }
  \cup { MkInfo(i, SessionOf(i), "user", NoExtras) : i \in MsgIds }
  \cup { MkInfo(Undef, "s1", "user", NoExtras),
         MkInfo("m1", Undef, "user", NoExtras),
         MkInfo("m1", "s1", Undef, NoExtras) }

MkPart(m, s, ty, tx, pid) ==
  [messageID |-> m, sessionID |-> s, type |-> ty, text |-> tx, id |-> pid,
   tool |-> IF ty = "tool" THEN "bash" ELSE Undef,
   state |-> IF ty = "tool" THEN Some([input |-> "ls", status |-> "completed"]) ELSE None]

\* props.part of message.part.updated events: texts and a tool part for both
\* messages; for m1 also a text part without text, a second tool part and a
\* part of another type; and parts with a field missing
PartPayloads ==
  { MkPart(m, SessionOf(m), "text", Some(t), Undef) : m \in MsgIds, t \in Texts }
  \cup { MkPart(m, SessionOf(m), "tool", None, "p1") : m \in MsgIds }
  \cup { MkPart("m1", "s1", "text", None, Undef),
         MkPart("m1", "s1", "tool", None, "p2"),
         MkPart("m1", "s1", "step-start", None, Undef) }
  \cup { MkPart(Undef, "s1", "text", Some("Fix the bug"), Undef),
         MkPart("m1", Undef, "tool", None, "p1") }

SessionTypes == {"session.created", "session.updated", "session.idle"}

\* stands for a value of another type where the code expects a string
NotAString == "<number>"

\* stands for a tool input that JSON.stringify cannot serialise
Unserialisable == "<circular>"

\* what a session record carries besides id and title
NoSessionExtras == [directory |-> Undef, modelID |-> Undef, tokens |-> None, cost |-> 0]

\* a session record that carries a directory and totals of its own
OwnTotals ==
  [directory |-> "/home/u/app", modelID |-> "gpt-4o-mini",
   tokens |-> Some([input |-> 5, output |-> 6, cache_creation |-> 0, cache_read |-> 0]),
   cost |-> 2]

MkSessionWith(i, t, x) ==
  [id |-> i, title |-> t, directory |-> x.directory, modelID |-> x.modelID,
   tokens |-> x.tokens, cost |-> x.cost]

MkSession(i, t) == MkSessionWith(i, t, NoSessionExtras)

\* props of session events: the record nested under info, or flat
SessionProps ==
  { [info |-> Some(MkSession(i, "Fix login")), id |-> Undef, title |-> Undef] :
      i \in SessIds \cup {Undef} }
  \cup { [info |-> Some(MkSession("s1", Undef)), id |-> Undef, title |-> Undef],
         [info |-> None, id |-> "s1", title |-> "Fix login"],
         [info |-> None, id |-> Undef, title |-> Undef] }

OtherTypes == {"file.edited"}

\* a session record whose directory is not a string
BadPath == [directory |-> NotAString, modelID |-> Undef, tokens |-> None, cost |-> 0]

\* props of the session events of the runs with faults
FaultSessionProps ==
  { [info |-> Some(MkSession("s1", "Fix login")), id |-> Undef, title |-> Undef],
    [info |-> Some(MkSessionWith("s1", "Fix login", BadPath)),
     id |-> Undef, title |-> Undef] }

\* props.part of the part events of the runs with faults
FaultParts ==
  { MkPart("m1", "s1", "text", Some("Fix the bug"), Undef),
    [MkPart("m1", "s1", "tool", None, "p1")
       EXCEPT !.state = Some([input |-> Unserialisable, status |-> "running"])] }

\* the ways a request can settle
Outcomes == {"ok", "non-ok", "rejected"}

\* an info that names its model in the nested shape and its cache tokens in
\* the flat shape
NestedModelExtras ==
  [modelID |-> Undef, model |-> Some([modelID |-> "gpt-4o"]),
   tokens |-> Some([input |-> 7, output |-> 0, cache |-> None,
                    cache_creation |-> 4, cache_read |-> 5]),
   cost |-> 0, time |-> None]

\* props.info of the message.updated events of the statistics runs
StatsInfos ==
  MetaInfos \cup { MkInfo(i, SessionOf(i), "assistant", NestedModelExtras) : i \in MsgIds }

\* props of the session events of the statistics runs
StatsSessionProps ==
  { [info |-> Some(MkSession(i, "Fix login")), id |-> Undef, title |-> Undef] :
      i \in SessIds }
  \cup { [info |-> Some(MkSessionWith("s1", "Fix login", OwnTotals)),
          id |-> Undef, title |-> Undef] }

----------------------------------------------------------------------------
(* inferRole, src/src/index.ts 305-329 *)

UpperChars == "ABCDEFGHIJKLMNOPQRSTUVWXYZ"
LowerChars == "abcdefghijklmnopqrstuvwxyz"

\* the lower-case letter of each upper-case letter
LowerMap ==
  [c \in {SubSeq(UpperChars, i, i) : i \in 1..26} |->
     LET i == CHOOSE k \in 1..26 : SubSeq(UpperChars, k, k) = c
     IN SubSeq(LowerChars, i, i)]

LowerChar(c) == IF c \in DOMAIN LowerMap THEN LowerMap[c] ELSE c

RECURSIVE LowerStr(_)
LowerStr(s) == IF s = "" THEN "" ELSE LowerChar(Head(s)) \o LowerStr(Tail(s))

At(s, i) == SubSeq(s, i, i)
StartsWith(s, p) == Len(s) >= Len(p) /\ SubSeq(s, 1, Len(p)) = p
\* a prefix match under the regex flag i
StartsWithCI(s, p) ==
  Len(s) >= Len(p) /\ LowerStr(SubSeq(s, 1, Len(p))) = LowerStr(p)

Digits == {"0", "1", "2", "3", "4", "5", "6", "7", "8", "9"}

\* assistantPatterns[0]: one of ten openers at the start, flag i
AssistantOpeners ==
  {"I'll", "Let me", "Here's", "I can", "I've", "I'm going to", "I will", "Sure",
   "Certainly", "Of course"}
MatchOpener(s) == \E p \in AssistantOpeners : StartsWithCI(s, p)

\* a TLA+ string cannot hold the backquote character: "~" stands for it in texts
BackQuote == "~"
Fence == BackQuote \o BackQuote \o BackQuote

\* assistantPatterns[1]: a code fence, one or more characters, a code fence
MatchFence(s) ==
  \E i \in 1..(Len(s) - 2) :
    /\ SubSeq(s, i, i + 2) = Fence
    /\ \E j \in (i + 4)..(Len(s) - 2) : SubSeq(s, j, j + 2) = Fence

\* assistantPatterns[2]: Yes or No, an optional comma, white space, a pronoun; flag i
MatchYesNo(s) ==
  \E a \in {"yes", "no"}, c \in {"", ","} :
    LET pre == a \o c IN
    /\ StartsWithCI(s, pre)
    /\ \E n \in 1..Len(s) :
         /\ Len(pre) + n < Len(s)
         /\ \A k \in 1..n : At(s, Len(pre) + k) \in WhiteSpace
         /\ \E w \in {"i", "you", "we", "this", "that"} :
              StartsWithCI(SubSeq(s, Len(pre) + n + 1, Len(s)), w)

\* assistantPatterns[3]: two stars, one or more non-star characters, two stars
MatchBold(s) ==
  \E i \in 1..(Len(s) - 1) :
    /\ SubSeq(s, i, i + 1) = "**"
    /\ \E j \in (i + 3)..(Len(s) - 1) :
         /\ SubSeq(s, j, j + 1) = "**"
         /\ \A k \in (i + 2)..(j - 1) : At(s, k) # "*"

\* assistantPatterns[4]: at the start digits, a dot, white space, two stars
MatchNumberedBold(s) ==
  /\ s # "" /\ At(s, 1) \in Digits
  /\ \E d \in 1..(Len(s) - 1) :
       /\ \A k \in 1..d : At(s, k) \in Digits
       /\ At(s, d + 1) = "."
       /\ \E n \in 1..(Len(s) - d - 3) :
            /\ \A k \in 1..n : At(s, d + 1 + k) \in WhiteSpace
            /\ SubSeq(s, d + n + 2, d + n + 3) = "**"

\* userPatterns[0]: a question mark at the end
MatchQuestion(s) == s # "" /\ At(s, Len(s)) = "?"

\* userPatterns[1]: one of eighteen openers at the start, flag i
UserOpeners ==
  {"create", "fix", "add", "update", "show", "make", "build", "implement", "write",
   "delete", "remove", "change", "modify", "help", "can you", "please", "I want",
   "I need"}
MatchImperative(s) == \E p \in UserOpeners : StartsWithCI(s, p)

\* userPatterns[2]: an at sign at the start
MatchAt(s) == StartsWith(s, "@")

FallbackLen == 500

\* mutant: the user patterns are tested before the assistant patterns
inferRole_UserFirst(textContent) ==
  IF \/ MatchQuestion(textContent) \/ MatchImperative(textContent)
     \/ MatchAt(textContent)
  THEN "user"
  ELSE IF \/ MatchOpener(textContent) \/ MatchFence(textContent)
          \/ MatchYesNo(textContent) \/ MatchBold(textContent)
          \/ MatchNumberedBold(textContent)
  THEN "assistant"
  ELSE IF Len(textContent) > FallbackLen THEN "assistant" ELSE "user"

inferRole(textContent) ==
  IF \/ MatchOpener(textContent) \/ MatchFence(textContent) \/ MatchYesNo(textContent)
     \/ MatchBold(textContent) \/ MatchNumberedBold(textContent)
  THEN "assistant"
  ELSE IF \/ MatchQuestion(textContent) \/ MatchImperative(textContent)
          \/ MatchAt(textContent)
  THEN "user"
  ELSE IF Len(textContent) > FallbackLen THEN "assistant" ELSE "user"

----------------------------------------------------------------------------
(* Outbound requests, src/src/index.ts 334-440 *)

Or0(o, field) == IF Has(o) THEN Get(o)[field] ELSE 0

\* `map.get(k)`
BufGet(map, k) == IF k \in DOMAIN map THEN Some(map[k]) ELSE None

\* `a || b` on numbers
OrNum(a, b) == IF a # 0 THEN a ELSE b

\* `path.split("/").pop()`: what follows the last slash
RECURSIVE LastSegment(_)
LastSegment(path) ==
  IF \E i \in 1..Len(path) : At(path, i) = "/"
  THEN LastSegment(SubSeq(path, (CHOOSE i \in 1..Len(path) : At(path, i) = "/") + 1,
                          Len(path)))
  ELSE path

\* the request body of doSyncSession, given what sessionStats.get returned
SessionBody(session, stats) ==
  [kind |-> "session",
   externalId |-> session.id,
   title |-> IF session.title # Undef THEN session.title ELSE "Untitled Session",
   projectPath |-> session.directory,
   projectName |-> IF session.directory = Undef THEN Undef
                   ELSE LastSegment(session.directory),
   model |-> IF Has(stats) /\ Get(stats).model # Undef
             THEN Get(stats).model ELSE session.modelID,
   promptTokens |-> OrNum(Or0(stats, "promptTokens"), Or0(session.tokens, "input")),
   completionTokens |-> OrNum(Or0(stats, "completionTokens"),
                              Or0(session.tokens, "output")),
   cacheCreationTokens |-> OrNum(Or0(stats, "cacheCreationTokens"),
                                 Or0(session.tokens, "cache_creation")),
   cacheReadTokens |-> OrNum(Or0(stats, "cacheReadTokens"),
                             Or0(session.tokens, "cache_read")),
   cost |-> OrNum(Or0(stats, "cost"), session.cost)]

\* mutant: the request is built without the accumulated statistics
SessionRequest_NoStats(session) == SessionBody(session, None)

\* the body of POST /sync/session built by doSyncSession
SessionRequest(session) ==
  SessionBody(session, BufGet(sessionStats, session.id))

\* line 376: `projectPath?.split("/")` throws when projectPath is no string
SessionBodyThrows(session) == session.directory = NotAString

\* lines 334-390; an error thrown while the request is built is caught at 387
doSyncSession(session) ==
  outbox' = IF ConfigIncomplete THEN outbox
            ELSE IF SessionBodyThrows(session) THEN outbox
            ELSE Append(outbox, SessionRequest(session))

\* `!textContent || textContent.trim().length === 0`
TextIsBlank(textContent) == textContent = "" \/ Len(Trim(textContent)) = 0

\* `!parts || parts.length === 0`
NoParts(parts) == ~Has(parts) \/ Len(Get(parts)) = 0

\* mutant: the role is always inferred from the text
FinalRole_AlwaysInfer(role, textContent) == inferRole(textContent)

\* lines 412-413: `role === "unknown" || !role ? inferRole(textContent || "") : role`
FinalRole(role, textContent) ==
  IF role = "unknown" \/ role = Undef THEN inferRole(textContent) ELSE role

\* the body of POST /sync/message built by doSyncMessage
MessageRequest(sessionId, messageId, role, textContent, metadata, parts) ==
  [kind |-> "message",
   sessionExternalId |-> sessionId,
   externalId |-> messageId,
   role |-> FinalRole(role, textContent),
   textContent |-> textContent,
   model |-> metadata.modelID,
   promptTokens |-> IF Has(metadata.tokens) THEN Some(Get(metadata.tokens).input) ELSE None,
   completionTokens |-> IF Has(metadata.tokens) THEN Some(Get(metadata.tokens).output) ELSE None,
   durationMs |-> IF Has(metadata.time)
                     /\ Get(metadata.time).completed # 0 /\ Get(metadata.time).created # 0
                  THEN Some(Get(metadata.time).completed - Get(metadata.time).created)
                  ELSE None,
   parts |-> parts]

\* line 425: JSON.stringify throws on a part that cannot be serialised
MessageBodyThrows(parts) ==
  Has(parts) /\ \E i \in 1..Len(Get(parts)) : Get(parts)[i].content.args = Unserialisable

\* lines 395-440; an error thrown while the request is built is caught at 437
doSyncMessage(sessionId, messageId, role, textContent, metadata, parts) ==
  outbox' = IF ConfigIncomplete THEN outbox
            ELSE IF TextIsBlank(textContent) /\ NoParts(parts) THEN outbox
            ELSE IF MessageBodyThrows(parts) THEN outbox
            ELSE Append(outbox,
                   MessageRequest(sessionId, messageId, role, textContent, metadata, parts))

----------------------------------------------------------------------------
(* trySyncMessage and scheduleSyncMessage, src/src/index.ts 445-481 *)

\* mutant: the forwarded-ID set is not consulted
AlreadySynced_Never(messageId) == FALSE

\* line 446
AlreadySynced(messageId) == messageId \in syncedMessages

\* mutant: text parts and tool parts are both required
NothingBuffered_Either(textParts, toolParts) == NoParts(textParts) \/ NoParts(toolParts)

\* line 452: `(!textParts || textParts.length === 0) && (!toolParts || toolParts.length === 0)`
NothingBuffered(textParts, toolParts) == NoParts(textParts) /\ NoParts(toolParts)

\* line 453: `textParts?.join("") || ""`
TextContentOf(textParts) == IF Has(textParts) THEN Join(Get(textParts)) ELSE ""

\* mutant: the blank-text test of line 455 is missing
NothingToSend_Never(textContent, toolParts) == FALSE

\* line 455: `!textContent.trim() && (!toolParts || toolParts.length === 0)`
NothingToSend(textContent, toolParts) == Trim(textContent) = "" /\ NoParts(toolParts)

trySyncMessage(messageId) ==
  LET metadata == BufGet(messageMetadata, messageId)
      textParts == BufGet(messagePartsText, messageId)
      toolParts == BufGet(messageToolParts, messageId)
      textContent == TextContentOf(textParts)
  IN IF \/ AlreadySynced(messageId)
        \/ ~Has(metadata)
        \/ NothingBuffered(textParts, toolParts)
        \/ NothingToSend(textContent, toolParts)
     THEN UNCHANGED <<syncedMessages, outbox, messagePartsText, messageToolParts,
                      messageMetadata>>
     ELSE /\ syncedMessages' = syncedMessages \cup {messageId}
          /\ doSyncMessage(Get(metadata).sessionId, messageId, Get(metadata).role,
                           textContent, Get(metadata).info, toolParts)
          /\ messagePartsText' = MapDel(messagePartsText, messageId)
          /\ messageToolParts' = MapDel(messageToolParts, messageId)
          /\ messageMetadata' = MapDel(messageMetadata, messageId)

\* setTimeout returns a handle no pending timer and no map entry holds
NewHandle ==
  LET used == {t.id : t \in timers} \cup {syncTimeouts[m] : m \in DOMAIN syncTimeouts}
  IN CHOOSE h \in 1..(Cardinality(used) + 1) :
       h \notin used /\ \A g \in 1..(h - 1) : g \in used

\* mutant: the pending timer is not cancelled
AfterClearExisting_NoClear(messageId) == timers

\* lines 474-475: the pending timers left after `if (existing) clearTimeout(existing)`
AfterClearExisting(messageId) ==
  IF messageId \in DOMAIN syncTimeouts
  THEN {t \in timers : t.id # syncTimeouts[messageId]}
  ELSE timers

\* mutant: a timer that is pending is left to run instead of being restarted
scheduleSyncMessage_KeepExisting(messageId) ==
  IF messageId \in DOMAIN syncTimeouts
  THEN UNCHANGED <<syncTimeouts, timers>>
  ELSE /\ timers' = timers \cup {[id |-> NewHandle, messageId |-> messageId,
                                   remaining |-> DEBOUNCE_MS]}
       /\ syncTimeouts' = MapSet(syncTimeouts, messageId, NewHandle)

\* mutant: one timer is shared by all messages
scheduleSyncMessage_SharedTimer(messageId) ==
  /\ timers' = {[id |-> 1, messageId |-> messageId, remaining |-> DEBOUNCE_MS]}
  /\ syncTimeouts' = MapSet(EmptyMap, messageId, 1)

\* lines 473-481
scheduleSyncMessage(messageId) ==
  /\ timers' = AfterClearExisting(messageId)
                 \cup {[id |-> NewHandle, messageId |-> messageId,
                        remaining |-> DEBOUNCE_MS]}
  /\ syncTimeouts' = MapSet(syncTimeouts, messageId, NewHandle)

\* mutant: the callback forgets the timer and does not try the message
TimerCallback_NoTry(t) ==
  /\ timers' = timers \ {t}
  /\ syncTimeouts' = MapDel(syncTimeouts, t.messageId)
  /\ UNCHANGED <<syncedMessages, outbox, messagePartsText, messageToolParts,
                 messageMetadata>>
  /\ UNCHANGED <<configFile, syncedSessions, sessionStats>>

\* the callback of lines 476-479, run for pending timer t
TimerCallback(t) ==
  /\ timers' = timers \ {t}
  /\ syncTimeouts' = MapDel(syncTimeouts, t.messageId)
  /\ trySyncMessage(t.messageId)
  /\ UNCHANGED <<configFile, syncedSessions, sessionStats>>

----------------------------------------------------------------------------
(* The event handler, src/src/index.ts 500-607 *)

\* mutant: the flat payload is read whenever it carries an id
SessionInfoOf_FlatFirst(props) ==
  IF props.id # Undef THEN MkSession(props.id, props.title)
  ELSE IF Has(props.info) THEN Get(props.info)
  ELSE MkSession(props.id, props.title)

\* lines 519-520: `props?.info || props`
SessionInfoOf(props) ==
  IF Has(props.info) THEN Get(props.info) ELSE MkSession(props.id, props.title)

\* mutant: the seen-session set is not consulted
SessionAlreadySynced_Never(sessionId) == FALSE

\* line 523
SessionAlreadySynced(sessionId) == sessionId \in syncedSessions

\* lines 514-528
OnSessionEvent(type, props) ==
  LET sessionInfo == SessionInfoOf(props)
      sessionId == sessionInfo.id
  IN /\ IF sessionId = Undef
        THEN UNCHANGED <<syncedSessions, outbox>>
        ELSE IF type = "session.created" /\ SessionAlreadySynced(sessionId)
        THEN UNCHANGED <<syncedSessions, outbox>>
        ELSE /\ syncedSessions' = IF type = "session.created"
                                  THEN syncedSessions \cup {sessionId}
                                  ELSE syncedSessions
             /\ doSyncSession(sessionInfo)
     /\ UNCHANGED <<configFile, syncedMessages, messagePartsText, messageToolParts,
                    messageMetadata, sessionStats, syncTimeouts, timers>>

ZeroStats == [model |-> Undef, promptTokens |-> 0, completionTokens |-> 0,
              cacheCreationTokens |-> 0, cacheReadTokens |-> 0, cost |-> 0]

\* mutant: the totals of the entry are replaced by the values of this event
StatsAfter_Overwrite(info) ==
  LET tk == IF Has(info.tokens) THEN Get(info.tokens) ELSE NoTokens
  IN [model |-> IF info.modelID # Undef THEN info.modelID
                ELSE IF Has(info.model) THEN Get(info.model).modelID ELSE Undef,
      promptTokens |-> tk.input,
      completionTokens |-> tk.output,
      cacheCreationTokens |-> OrNum(Or0(tk.cache, "write"), tk.cache_creation),
      cacheReadTokens |-> OrNum(Or0(tk.cache, "read"), tk.cache_read),
      cost |-> info.cost]

\* lines 550-551: `info.modelID || info.model?.modelID`
ModelIdOf(info) ==
  IF info.modelID # Undef THEN info.modelID
  ELSE IF Has(info.model) THEN Get(info.model).modelID ELSE Undef

\* mutant: every event that supplies a model sets the model of the entry
ModelAfter_Last(existing, modelID) == IF modelID # Undef THEN modelID ELSE existing.model

\* lines 552-554: `if (modelID && !existing.model) existing.model = modelID`
ModelAfter(existing, modelID) ==
  IF modelID # Undef /\ existing.model = Undef THEN modelID ELSE existing.model

\* lines 542-565: the statistics entry of info.sessionID after this event
StatsAfter(info) ==
  LET existing == IF info.sessionID \in DOMAIN sessionStats
                  THEN sessionStats[info.sessionID] ELSE ZeroStats
      modelID == ModelIdOf(info)
      tk == IF Has(info.tokens) THEN Get(info.tokens) ELSE NoTokens
  IN [model |-> ModelAfter(existing, modelID),
      promptTokens |-> existing.promptTokens + tk.input,
      completionTokens |-> existing.completionTokens + tk.output,
      cacheCreationTokens |-> existing.cacheCreationTokens
                                + OrNum(Or0(tk.cache, "write"), tk.cache_creation),
      cacheReadTokens |-> existing.cacheReadTokens
                            + OrNum(Or0(tk.cache, "read"), tk.cache_read),
      cost |-> existing.cost + info.cost]

\* line 532
MetaAccepted(info) == info.id # Undef /\ info.sessionID # Undef /\ info.role # Undef

\* mutant: a metadata event never (re)starts the timer
MetaSchedules_Never(messageId) == FALSE

\* line 538: the condition under which a metadata event (re)starts the timer
MetaSchedules(messageId) == messageId \in DOMAIN messagePartsText

\* lines 530-567
OnMessageUpdated(info) ==
  IF MetaAccepted(info)
  THEN /\ messageMetadata' = MapSet(messageMetadata, info.id,
                               [role |-> info.role, sessionId |-> info.sessionID,
                                info |-> info])
       /\ IF MetaSchedules(info.id)
          THEN scheduleSyncMessage(info.id)
          ELSE UNCHANGED <<syncTimeouts, timers>>
       /\ sessionStats' = MapSet(sessionStats, info.sessionID, StatsAfter(info))
       /\ UNCHANGED <<configFile, syncedSessions, syncedMessages, messagePartsText,
                      messageToolParts, outbox>>
  ELSE UNCHANGED progVars

\* line 571
PartAccepted(part) == part.messageID # Undef /\ part.sessionID # Undef

\* mutant: the text of a text part is pushed onto the buffered texts
TextBufferAfter_Concat(messageId, text) ==
  IF messageId \in DOMAIN messagePartsText
  THEN Append(messagePartsText[messageId], text) ELSE << text >>

\* lines 583-584: the text buffer entry after a text part
TextBufferAfter(messageId, text) == << text >>

\* lines 590-598: the entry pushed for a tool part
ToolEntry(part) ==
  [type |-> "tool-call",
   content |-> [id |-> part.id, name |-> part.tool,
                args |-> IF Has(part.state) THEN Get(part.state).input ELSE Undef,
                status |-> IF Has(part.state) THEN Get(part.state).status ELSE Undef]]

\* mutant: a tool part replaces the buffered tool parts
ToolBufferAfter_Replace(messageId, part) == << ToolEntry(part) >>

\* lines 589-599: the tool buffer entry after a tool part
ToolBufferAfter(messageId, part) ==
  Append(IF messageId \in DOMAIN messageToolParts
         THEN messageToolParts[messageId] ELSE << >>,
         ToolEntry(part))

\* mutant: every part event writes the placeholder
MetadataAfterPart_Always(messageId, sessionId) ==
  MapSet(messageMetadata, messageId,
         [role |-> "unknown", sessionId |-> sessionId, info |-> EmptyInfo])

\* lines 574-580: the placeholder is written `if (!messageMetadata.has(messageId))`
MetadataAfterPart(messageId, sessionId) ==
  IF messageId \in DOMAIN messageMetadata THEN messageMetadata
  ELSE MapSet(messageMetadata, messageId,
              [role |-> "unknown", sessionId |-> sessionId, info |-> EmptyInfo])

\* lines 569-603
OnMessagePartUpdated(part) ==
  IF PartAccepted(part)
  THEN LET messageId == part.messageID IN
       /\ messageMetadata' = MetadataAfterPart(messageId, part.sessionID)
       /\ IF part.type = "text"
          THEN /\ messagePartsText' =
                    MapSet(messagePartsText, messageId,
                           TextBufferAfter(messageId,
                             IF Has(part.text) THEN Get(part.text) ELSE ""))
               /\ scheduleSyncMessage(messageId)
               /\ UNCHANGED messageToolParts
          ELSE IF part.type = "tool"
          THEN /\ messageToolParts' =
                    MapSet(messageToolParts, messageId, ToolBufferAfter(messageId, part))
               /\ scheduleSyncMessage(messageId)
               /\ UNCHANGED messagePartsText
          ELSE UNCHANGED <<messagePartsText, messageToolParts, syncTimeouts, timers>>
       /\ UNCHANGED <<configFile, syncedSessions, syncedMessages, sessionStats, outbox>>
  ELSE UNCHANGED progVars

----------------------------------------------------------------------------
(* The state machine: events from the host, timer expiries, the passing of *)
(* time, and the CLI rewriting the configuration file.                     *)

Never == 0 - 1

\* the plugin module has just been loaded: lines 274-300
PluginLoaded ==
  /\ syncedSessions = {}
  /\ syncedMessages = {}
  /\ messagePartsText = EmptyMap
  /\ messageToolParts = EmptyMap
  /\ messageMetadata = EmptyMap
  /\ sessionStats = EmptyMap
  /\ syncTimeouts = EmptyMap
  /\ timers = {}
  /\ outbox = << >>
  /\ nEvents = 0
  /\ sinceLast = [m \in MsgIds |-> Never]
  /\ attempts = [m \in MsgIds |-> 0]
  /\ sinceArm = [m \in MsgIds |-> Never]
  /\ armAttempts = [m \in MsgIds |-> 0]
  /\ burstLen = [m \in MsgIds |-> 0]
  /\ textHist = [m \in MsgIds |-> << >>]
  /\ toolHist = [m \in MsgIds |-> << >>]
  /\ lastInfo = [m \in MsgIds |-> None]
  /\ createdObs = [s \in SessIds |-> [first |-> "none", later |-> FALSE, requests |-> 0]]
  /\ scen = 0
  /\ metaLog = [s \in SessIds |-> << >>]
  /\ sentSessions = << >>
  /\ hostErrors = 0
  /\ swallowed = 0
  /\ settled = << >>
  /\ lastEvent = None

\* no `sync` command is running
Idle ==
  [pc |-> "idle", toSync |-> << >>, current |-> None, messages |-> << >>,
   inFlight |-> {}, log |-> << >>, newly |-> << >>,
   mode |-> "none", start |-> None, results |-> << >>]

\* the plugin starts; no archive on disk, the CLI has not run
Init ==
  /\ configFile \in {None, Some(FullConfig), Some(UrlOnlyConfig)}
  /\ PluginLoaded
  /\ trackingFile = None
  /\ localStore = None
  /\ cliOut = << >>
  /\ lastRun = None
  /\ proc = Idle

\* an accepted event for message m: the observers of its burst start again;
\* `arms` tells whether the handler (re)starts the timer of m on this event
ObserveEvent(m, arms) ==
  /\ sinceLast' = [sinceLast EXCEPT ![m] = 0]
  /\ attempts' = [attempts EXCEPT ![m] = 0]
  /\ IF arms
     THEN /\ sinceArm' = [sinceArm EXCEPT ![m] = 0]
          /\ armAttempts' = [armAttempts EXCEPT ![m] = 0]
          /\ burstLen' = [burstLen EXCEPT ![m] =
                            IF \E t \in timers : t.messageId = m /\ t.remaining > 0
                            THEN @ + 1 ELSE 1]
     ELSE UNCHANGED <<sinceArm, armAttempts, burstLen>>

\* a session event: the handler and the observers of the live path
SessionEventCore(type, props) ==
    /\ nEvents < MaxEvents
    /\ OnSessionEvent(type, props)
    /\ nEvents' = nEvents + 1
    /\ scen' = IF scen = 0 /\ type = "session.created" /\ SessionInfoOf(props).id = "s1"
               THEN 1 ELSE Never
    /\ createdObs' =
         IF type = "session.created" /\ SessionInfoOf(props).id \in SessIds
         THEN LET s == SessionInfoOf(props).id
                  sent == Len(outbox') - Len(outbox)
              IN [createdObs EXCEPT ![s] =
                    [first |-> IF @.first # "none" THEN @.first
                               ELSE IF ConfigIncomplete THEN "unconfigured"
                               ELSE "configured",
                     later |-> @.first # "none",
                     requests |-> @.requests + sent]]
         ELSE createdObs
    /\ sentSessions' = IF Len(outbox') > Len(outbox)
                       THEN Append(sentSessions, SessionInfoOf(props))
                       ELSE sentSessions
    /\ UNCHANGED <<burstObs, textHist, toolHist, lastInfo, metaLog>>

SessionEventWith(type, props) ==
    /\ SessionEventCore(type, props)
    /\ UNCHANGED <<faultVars, lastEvent, cliVars>>

SessionEvent ==
  \E type \in SessionTypes, props \in SessionProps : SessionEventWith(type, props)

MessageUpdatedWith(info) ==
    /\ nEvents < MaxEvents
    /\ OnMessageUpdated(info)
    /\ nEvents' = nEvents + 1
    /\ IF MetaAccepted(info)
       THEN /\ ObserveEvent(info.id, info.id \in DOMAIN messagePartsText)
            /\ lastInfo' = IF info.id \notin syncedMessages
                           THEN [lastInfo EXCEPT ![info.id] = Some(info)]
                           ELSE lastInfo
       ELSE UNCHANGED <<burstObs, lastInfo>>
    /\ scen' = IF /\ scen = 1 /\ info.id = "m1" /\ info.sessionID = "s1"
                  /\ info.role = "user"
               THEN 2 ELSE Never
    /\ metaLog' = IF MetaAccepted(info)
                  THEN [metaLog EXCEPT ![info.sessionID] = Append(@, info)]
                  ELSE metaLog
    /\ UNCHANGED <<textHist, toolHist, createdObs, sentSessions>>
    /\ UNCHANGED <<faultVars, lastEvent, cliVars>>

MessageUpdated ==
  \E info \in MetaInfos : MessageUpdatedWith(info)

MessagePartUpdatedWith(part) ==
    /\ nEvents < MaxEvents
    /\ OnMessagePartUpdated(part)
    /\ nEvents' = nEvents + 1
    /\ IF PartAccepted(part) /\ part.type \in {"text", "tool"}
       THEN /\ ObserveEvent(part.messageID, TRUE)
            /\ textHist' = IF part.type = "text" /\ part.messageID \notin syncedMessages
                           THEN [textHist EXCEPT ![part.messageID] = Append(@, part.text)]
                           ELSE textHist
            /\ toolHist' = IF part.type = "tool" /\ part.messageID \notin syncedMessages
                           THEN [toolHist EXCEPT ![part.messageID] = Append(@, part)]
                           ELSE toolHist
       ELSE UNCHANGED <<burstObs, textHist, toolHist>>
    /\ scen' = IF /\ scen = 2 /\ part.messageID = "m1" /\ part.sessionID = "s1"
                  /\ part.type = "text" /\ part.text = Some("Fix the bug")
               THEN 3 ELSE Never
    /\ UNCHANGED <<lastInfo, createdObs, metaLog, sentSessions>>
    /\ UNCHANGED <<faultVars, lastEvent, cliVars>>

MessagePartUpdated ==
  \E part \in PartPayloads : MessagePartUpdatedWith(part)

\* mutant: every type that starts with session. enters the session branch
HandlerBranch_Prefix(type) ==
  IF StartsWith(type, "session.") THEN "session"
  ELSE IF type = "message.updated" THEN "metadata"
  ELSE IF type = "message.part.updated" THEN "part"
  ELSE "none"

\* the branch of the handler that the type of an event selects: the tests
\* of lines 514-517, 530 and 569, each on equality
HandlerBranch(type) ==
  IF type \in SessionTypes THEN "session"
  ELSE IF type = "message.updated" THEN "metadata"
  ELSE IF type = "message.part.updated" THEN "part"
  ELSE "none"

\* a payload that carries nothing
NoProps == [info |-> None, id |-> Undef, title |-> Undef]

\* lines 500-607 with an event of another type than the five the branches
\* name
OtherEventCore(type, props) ==
    /\ nEvents < MaxEvents
    /\ IF HandlerBranch(type) = "session" THEN OnSessionEvent(type, props)
       ELSE UNCHANGED progVars
    /\ nEvents' = nEvents + 1
    /\ scen' = Never
    /\ UNCHANGED <<burstObs, textHist, toolHist, lastInfo, createdObs, metaLog,
                   sentSessions>>

OtherEvent ==
  \E type \in OtherTypes :
    /\ OtherEventCore(type, NoProps)
    /\ UNCHANGED <<faultVars, lastEvent, cliVars>>

\* a pending timer whose delay has elapsed runs its callback
TimerFire ==
  \E t \in timers :
    /\ t.remaining = 0
    /\ TimerCallback(t)
    /\ attempts' = [attempts EXCEPT ![t.messageId] = @ + 1]
    /\ armAttempts' = [armAttempts EXCEPT ![t.messageId] = @ + 1]
    /\ scen' = IF scen = 3 THEN 4 ELSE scen
    /\ UNCHANGED <<nEvents, sinceLast, sinceArm, burstLen, textHist, toolHist,
                   lastInfo, createdObs, metaLog, sentSessions>>
    /\ UNCHANGED <<faultVars, lastEvent, cliVars>>

Elapse(since) ==
  [m \in MsgIds |-> IF since[m] = Never THEN Never
                    ELSE Min(DEBOUNCE_MS, since[m] + TickMs)]

\* TickMs of time pass
Tick ==
  /\ \/ \E t \in timers : t.remaining > 0
     \/ \E m \in MsgIds : sinceLast[m] # Never /\ sinceLast[m] < DEBOUNCE_MS
  /\ timers' = {[t EXCEPT !.remaining = Max(0, @ - TickMs)] : t \in timers}
  /\ sinceLast' = Elapse(sinceLast)
  /\ sinceArm' = Elapse(sinceArm)
  /\ UNCHANGED <<configFile, syncedSessions, syncedMessages, messagePartsText,
                 messageToolParts, messageMetadata, sessionStats, syncTimeouts, outbox>>
  /\ UNCHANGED <<nEvents, attempts, armAttempts, burstLen, textHist, toolHist,
                 lastInfo, createdObs, scen, metaLog, sentSessions>>
  /\ UNCHANGED <<faultVars, lastEvent, cliVars>>

\* opencode-sync login
Login ==
  /\ nEvents < MaxEvents
  /\ configFile # Some(FullConfig)
  /\ setConfig(FullConfig)
  /\ nEvents' = nEvents + 1
  /\ scen' = Never
  /\ UNCHANGED <<syncedSessions, syncedMessages, messagePartsText, messageToolParts,
                 messageMetadata, sessionStats, syncTimeouts, timers, outbox>>
  /\ UNCHANGED <<burstObs, textHist, toolHist, lastInfo, createdObs, metaLog,
                 sentSessions>>
  /\ UNCHANGED <<faultVars, lastEvent, cliVars>>

\* opencode-sync logout
Logout ==
  /\ nEvents < MaxEvents
  /\ Has(configFile) /\ configFile # Some(ClearedConfig)
  /\ clearConfig
  /\ nEvents' = nEvents + 1
  /\ scen' = Never
  /\ UNCHANGED <<syncedSessions, syncedMessages, messagePartsText, messageToolParts,
                 messageMetadata, sessionStats, syncTimeouts, timers, outbox>>
  /\ UNCHANGED <<burstObs, textHist, toolHist, lastInfo, createdObs, metaLog,
                 sentSessions>>
  /\ UNCHANGED <<faultVars, lastEvent, cliVars>>

Next ==
  \/ SessionEvent
  \/ MessageUpdated
  \/ MessagePartUpdated
  \/ OtherEvent
  \/ TimerFire
  \/ Tick
  \/ Login
  \/ Logout

Spec == Init /\ [][Next]_vars

----------------------------------------------------------------------------
(* Runs with faults: events the handler cannot read, payloads that make    *)
(* the building of a request throw, and requests that fail.                *)

\* lines 604-606, `catch { // Silent }`: whether an error thrown in the body
\* of the event handler goes on to the host
HandlerCatch(thrown) == FALSE

\* mutant: no rejection handler is attached to the request
FetchCatch_Missing(rejected) == rejected

\* lines 386 and 436, `.catch(() => {})`: whether a rejection of the request
\* goes on to the host
FetchCatch(rejected) == FALSE

FaultySessionEvent ==
  \E type \in SessionTypes, props \in FaultSessionProps : SessionEventWith(type, props)

FaultyPartEvent ==
  \E part \in FaultParts : MessagePartUpdatedWith(part)

\* the host delivers no event object: line 502 throws inside the try of 501
BrokenEvent ==
  /\ nEvents < MaxEvents
  /\ UNCHANGED progVars
  /\ nEvents' = nEvents + 1
  /\ scen' = Never
  /\ hostErrors' = hostErrors + IF HandlerCatch(TRUE) THEN 1 ELSE 0
  /\ swallowed' = swallowed + IF HandlerCatch(TRUE) THEN 0 ELSE 1
  /\ UNCHANGED <<burstObs, textHist, toolHist, lastInfo, createdObs, metaLog,
                 sentSessions, settled, lastEvent, cliVars>>

\* the oldest request in flight settles; its response is never read
RequestSettles ==
  \E outcome \in Outcomes :
    /\ Len(settled) < Len(outbox)
    /\ settled' = Append(settled, outcome)
    /\ hostErrors' = hostErrors + IF FetchCatch(outcome = "rejected") THEN 1 ELSE 0
    /\ UNCHANGED <<progVars, obsVars, swallowed, lastEvent, cliVars>>

NextFaults ==
  \/ FaultySessionEvent
  \/ FaultyPartEvent
  \/ BrokenEvent
  \/ TimerFire
  \/ Tick
  \/ RequestSettles
  \/ Login
  \/ Logout

SpecFaults == Init /\ [][NextFaults]_vars

-----------------------------------------------------------------------------
(* Runs of session events in both payload shapes, each recorded as the     *)
(* host sent it together with the program state it found.                  *)

\* props of session events: the same record nested and flat, another
\* record nested, a nested record without id beside a flat id, a nested
\* record beside the flat fields of another session, and no record at all
ShapeProps ==
  { [info |-> Some(MkSession("s1", "Fix login")), id |-> Undef, title |-> Undef],
    [info |-> None, id |-> "s1", title |-> "Fix login"],
    [info |-> Some(MkSession("s2", Undef)), id |-> Undef, title |-> Undef],
    [info |-> Some(MkSession(Undef, "Fix login")), id |-> "s1", title |-> "Fix login"],
    [info |-> Some(MkSession("s2", "Other")), id |-> "s1", title |-> "Fix login"],
    [info |-> None, id |-> Undef, title |-> "Fix login"] }

ShapeSessionEvent ==
  \E type \in SessionTypes, props \in ShapeProps :
    /\ SessionEventCore(type, props)
    /\ lastEvent' = Some([type |-> type, props |-> props, before |-> progVars,
                          previous |-> IF Has(lastEvent) THEN Some(Get(lastEvent).props)
                                       ELSE None])
    /\ UNCHANGED <<faultVars, cliVars>>

NextShapes == ShapeSessionEvent

SpecShapes == Init /\ [][NextShapes]_vars

-----------------------------------------------------------------------------
(* Runs in which events of other types arrive between the part events of   *)
(* the messages, each recorded with the program state it found.            *)

\* event types no branch of the handler names; two of them start like the
\* types of the session and message branches
UnknownTypes == {"file.edited", "session.deleted", "message.removed"}

UnknownEvent ==
  \E type \in UnknownTypes,
     props \in {NoProps, [info |-> Some(MkSession("s1", "Fix login")),
                          id |-> Undef, title |-> Undef]} :
    /\ OtherEventCore(type, props)
    /\ lastEvent' = Some([type |-> type, props |-> props, before |-> progVars,
                          previous |-> None])
    /\ UNCHANGED <<faultVars, cliVars>>

\* a text part or a tool part of m1
PartOfM1 ==
  \E part \in {MkPart("m1", "s1", "text", Some("Fix the bug"), Undef),
                MkPart("m1", "s1", "tool", None, "p1")} :
    MessagePartUpdatedWith(part)

NextOther ==
  \/ UnknownEvent
  \/ PartOfM1
  \/ TimerFire
  \/ Tick

SpecOther == Init /\ [][NextOther]_vars

-----------------------------------------------------------------------------
(* Runs in which no message.updated event names a role: the role of every  *)
(* forwarded message is inferred from its text.                            *)

RECURSIVE Repeat(_, _)
Repeat(c, n) ==
  IF n = 0 THEN ""
  ELSE IF n % 2 = 1 THEN c \o Repeat(c, n - 1)
  ELSE LET half == Repeat(c, n \div 2) IN half \o half

\* a text of FallbackLen characters that matches no pattern
LongText == Repeat("x", FallbackLen)

\* texts that match an assistant pattern and a user pattern, an assistant
\* pattern only, a user pattern only, and none, the latter of 500 and 501
\* characters; and a text of 501 characters that matches a user pattern
RoleTexts ==
  {"Sure, can you fix it?", "Done: **all green**", "Fix the bug",
   LongText, LongText \o "x", LongText \o "?"}

\* text parts of m1 with each text, of m2 with one of them, and a tool part
\* of m1, which lets a message without text be forwarded
RoleParts ==
  { MkPart("m1", "s1", "text", Some(t), Undef) : t \in RoleTexts }
  \cup { MkPart("m2", SessionOf("m2"), "text", Some("Sure, can you fix it?"), Undef),
         MkPart("m1", "s1", "tool", None, "p1") }

RolePartEvent ==
  \E part \in RoleParts : MessagePartUpdatedWith(part)

NextRoles ==
  \/ RolePartEvent
  \/ TimerFire
  \/ Tick
  \/ Login
  \/ Logout

SpecRoles == Init /\ [][NextRoles]_vars

\* metadata events of m1 with either role
RoleInfos == { MkInfo("m1", "s1", r, NoExtras) : r \in {"user", "assistant"} }

\* a text that reads like an assistant's, one that reads like a user's, and a
\* tool part, all of m1
MetaParts ==
  { MkPart("m1", "s1", "text", Some(t), Undef) :
      t \in {"Sure, can you fix it?", "Fix the bug"} }
  \cup { MkPart("m1", "s1", "tool", None, "p1") }

RoleInfoEvent ==
  \E info \in RoleInfos : MessageUpdatedWith(info)

MetaPartEvent ==
  \E part \in MetaParts : MessagePartUpdatedWith(part)

NextMeta ==
  \/ RoleInfoEvent
  \/ MetaPartEvent
  \/ TimerFire
  \/ Tick

SpecMeta == Init /\ [][NextMeta]_vars

\* parts of m1 that qualify it, a blank text that does not, and a text of m2
LiveParts ==
  { MkPart("m1", "s1", "text", Some(t), Undef) : t \in Texts }
  \cup { MkPart("m1", "s1", "tool", None, "p1"),
         MkPart("m2", SessionOf("m2"), "text", Some("Fix the bug"), Undef) }

LivePartEvent ==
  \E part \in LiveParts : MessagePartUpdatedWith(part)

NextLive ==
  \/ LivePartEvent
  \/ RoleInfoEvent
  \/ TimerFire
  \/ Tick
  \/ Logout

\* the event loop runs the callback of every timer whose delay has elapsed, and
\* time passes
Fairness == WF_vars(TimerFire) /\ WF_vars(Tick)

SpecLive == Init /\ [][NextLive]_vars /\ Fairness

----------------------------------------------------------------------------
(* Runs about the session statistics: metadata events that name models and *)
(* usage in either shape, and session events with and without totals of    *)
(* their own.                                                              *)

StatsMessageUpdated ==
  \E info \in StatsInfos : MessageUpdatedWith(info)

StatsSessionEvent ==
  \E type \in SessionTypes, props \in StatsSessionProps : SessionEventWith(type, props)

NextStats ==
  \/ StatsMessageUpdated
  \/ StatsSessionEvent
  \/ Login
  \/ Logout

SpecStats == Init /\ [][NextStats]_vars

----------------------------------------------------------------------------
(* The bulk path of the CLI: opencode-sync sync --new | --all | --force,   *)
(* src/src/cli.ts 326-388 and 459-738, and the tracking record kept by     *)
(* config.ts (src/unnamed/part_002 52-89).                                 *)
(*                                                                         *)
(* A JavaScript Set is a sequence without repetitions, in insertion order. *)

Range(seq) == {seq[i] : i \in DOMAIN seq}

SetAdd(set, x) == IF x \in Range(set) THEN set ELSE Append(set, x)

RECURSIVE SetAddAll(_, _)
SetAddAll(set, arr) ==
  IF arr = << >> THEN set ELSE SetAddAll(SetAdd(set, Head(arr)), Tail(arr))

\* `new Set(array)`
NewSet(arr) == SetAddAll(<< >>, arr)

\* the content of synced-sessions.json: unparsable, or an object whose
\* sessionIds is an array (Some) or is no array (None)
TrackingRecord(ids) == [parses |-> TRUE, sessionIds |-> Some(ids)]
CorruptRecord == [parses |-> FALSE, sessionIds |-> None]
NoArrayRecord == [parses |-> TRUE, sessionIds |-> None]

\* the tracking files a run may find
TrackingFiles ==
  {None, Some(CorruptRecord), Some(NoArrayRecord), Some(TrackingRecord(<< >>)),
   Some(TrackingRecord(<<"s1">>)), Some(TrackingRecord(<<"s2", "s1">>))}

\* JSON.parse of the file's content throws
TrackingParseThrows(file) == Has(file) /\ ~Get(file).parses

\* mutant: getSyncedSessions without its try / catch
TrackingReadEscapes_NoCatch(thrown) == thrown

\* whether an error thrown while getSyncedSessions reads the file leaves
\* the function: its body is one try block whose catch returns an empty Set
TrackingReadEscapes(thrown) == FALSE

\* getSyncedSessions(): the IDs of the record; the empty set when the file
\* is missing, cannot be parsed or holds no array
getSyncedSessions(file) ==
  IF ~Has(file) THEN << >>
  ELSE IF ~Get(file).parses THEN << >>
  ELSE IF ~Has(Get(file).sessionIds) THEN << >>
  ELSE NewSet(Get(Get(file).sessionIds))

\* mutant: the record is replaced by the new IDs
addSyncedSessions_Overwrite(file, sessionIds) == Some(TrackingRecord(sessionIds))

\* addSyncedSessions(sessionIds): the file afterwards (lastUpdated left out)
addSyncedSessions(file, sessionIds) ==
  Some(TrackingRecord(SetAddAll(getSyncedSessions(file), sessionIds)))

\* mutant: the record is left as it is
clearSyncedSessions_Keep(file) == file

\* clearSyncedSessions(): the file afterwards; a missing file stays missing
clearSyncedSessions(file) ==
  IF Has(file) THEN Some(TrackingRecord(<< >>)) ELSE file

\* `if (data.id)`: the id of a record, "" or undefined when it has none
IdPresent(id) == id # "" /\ id # Undef

\* a file of session/<project>/: unparsable, or a session record
SessionFile(id, title, slug, directory) ==
  [parses |-> TRUE, id |-> id, title |-> title, slug |-> slug, directory |-> directory]
UnparsableSessionFile ==
  [parses |-> FALSE, id |-> Undef, title |-> Undef, slug |-> Undef, directory |-> Undef]

\* a file of message/<sessionID>/: unparsable, or a message record
\* (cost 0 and tokens None when the record has none; the records of the
\* model carry no time, so durationMs is undefined in every request)
MessageFile(id, sessionID, role, modelID, providerID, tokens, cost) ==
  [parses |-> TRUE, id |-> id, sessionID |-> sessionID, role |-> role,
   modelID |-> modelID, providerID |-> providerID, tokens |-> tokens, cost |-> cost]
UnparsableMessageFile ==
  [parses |-> FALSE, id |-> Undef, sessionID |-> Undef, role |-> Undef,
   modelID |-> Undef, providerID |-> Undef, tokens |-> None, cost |-> 0]

\* the tokens of a message record: input, output and, in the files OpenCode
\* writes, the cache tokens nested under cache
Usage(input, output, cache) ==
  Some([input |-> input, output |-> output, cache |-> cache,
        cache_creation |-> 0, cache_read |-> 0])

\* a file of part/<messageID>/ (text "" when the part has none)
PartFile(id, type, text) == [parses |-> TRUE, id |-> id, type |-> type, text |-> text]
UnparsablePartFile == [parses |-> FALSE, id |-> Undef, type |-> Undef, text |-> ""]

\* an archive with the session directory present and nothing in it
EmptyArchive == [sessions |-> << >>, messages |-> EmptyMap, parts |-> EmptyMap]

\* an archive with one session that has messages
SmallArchive ==
  [sessions |-> << SessionFile("s1", "Fix login", Undef, "/home/u/app") >>,
   messages |-> [d \in {"s1"} |->
                   << MessageFile("m1", "s1", "user", Undef, Undef, None, 0) >>],
   parts |-> [d \in {"m1"} |-> << PartFile("p1", "text", "Fix the bug") >>]]

\* an archive with two sessions, the second without a message directory,
\* a record without id, files that cannot be parsed, a message without id,
\* a text part without id and a message that names another session
MixedArchive ==
  [sessions |-> << SessionFile("s1", "Fix login", Undef, "/home/u/app"),
                   UnparsableSessionFile,
                   SessionFile("", "No id", Undef, Undef),
                   SessionFile("s2", Undef, "calm-river", Undef) >>,
   messages |-> [d \in {"s1"} |->
                   << MessageFile("m1", "s1", "user", Undef, Undef, None, 0),
                      UnparsableMessageFile,
                      MessageFile(Undef, "s1", "user", Undef, Undef,
                                  Usage(9, 9, None), 9),
                      MessageFile("m3", "s2", "user", Undef, Undef, None, 0),
                      MessageFile("m2", "s1", "assistant", "gpt-4o", "openai",
                                  Usage(3, 4, Some([write |-> 5, read |-> 6])), 2) >>],
   parts |-> [d \in {"m1", "m2"} |->
                IF d = "m1" THEN << PartFile("p1", "text", "Fix the bug") >>
                ELSE << PartFile("p2", "tool", ""), UnparsablePartFile,
                        PartFile("p3", "text", "Done"),
                        PartFile(Undef, "text", ", no id") >>]]

\* an archive with the one session s2 and no directory message/s2
LoneArchive ==
  [sessions |-> << SessionFile("s2", Undef, "calm-river", "/home/u/app") >>,
   messages |-> EmptyMap, parts |-> EmptyMap]

\* an archive with one session whose one message names a model and its
\* tokens and has no cost field
PricedArchive ==
  [sessions |-> << SessionFile("s1", "Fix login", Undef, "/home/u/app") >>,
   messages |-> [d \in {"s1"} |->
                   << MessageFile("m1", "s1", "assistant", "claude-sonnet-4-20250514",
                                  "anthropic",
                                  Usage(1000000, 1000000, None), 0) >>],
   parts |-> EmptyMap]

\* the archives a run may find: None when storage/session does not exist
Archives ==
  {None, Some(EmptyArchive), Some(SmallArchive), Some(MixedArchive),
   Some(LoneArchive), Some(PricedArchive)}

\* getMessageTextContent(partBasePath, messageId), lines 326-359
RECURSIVE PartsText(_)
PartsText(files) ==
  IF files = << >> THEN ""
  ELSE (IF Head(files).parses /\ Head(files).type = "text" /\ Head(files).text # ""
        THEN Head(files).text ELSE "") \o PartsText(Tail(files))

getMessageTextContent(store, messageId) ==
  IF messageId \notin DOMAIN store.parts THEN "" ELSE PartsText(store.parts[messageId])

\* the answers to GET /sync/sessions/list: the request is rejected, or a
\* response arrives, OK or not, whose body holds an ID array (Some) or none
Reply(status, sessionIds) == [status |-> status, sessionIds |-> sessionIds]
RemoteReplies ==
  {Reply("rejected", None), Reply("non-ok", Some(<<"s1">>)), Reply("ok", None),
   Reply("ok", Some(<<"s1">>)), Reply("ok", Some(<<"s2", "s1">>))}

\* no list query is sent in the modes new and force
NoReply == Reply("none", None)
RepliesFor(mode) == IF mode = "all" THEN RemoteReplies ELSE {NoReply}

\* mutant: the body of a response is read whatever its status
fetchBackendSessionIds_AnyStatus(reply) ==
  IF Has(reply.sessionIds) THEN NewSet(Get(reply.sessionIds)) ELSE << >>

\* fetchBackendSessionIds(siteUrl, apiKey), given the answer
fetchBackendSessionIds(reply) ==
  IF reply.status = "ok" /\ Has(reply.sessionIds)
  THEN NewSet(Get(reply.sessionIds)) ELSE << >>

\* mutant: the scan stops at the first file that cannot be parsed
CollectSessions_AbortOnBad(store) ==
  LET bad == {i \in DOMAIN store.sessions : ~store.sessions[i].parses}
      n == IF bad = {} THEN Len(store.sessions)
           ELSE (CHOOSE i \in bad : \A j \in bad : i <= j) - 1
      Keep(f) == IdPresent(f.id)
  IN SelectSeq(SubSeq(store.sessions, 1, n), Keep)

\* the sessions collected by the scan, lines 513-546
CollectSessions(store) ==
  LET Keep(f) == f.parses /\ IdPresent(f.id) IN SelectSeq(store.sessions, Keep)

\* the messages read for one session, lines 603-644
CollectMessages(store, data) ==
  IF data.id \notin DOMAIN store.messages THEN << >>
  ELSE LET Keep(f) == f.parses /\ IdPresent(f.id) /\ f.sessionID = data.id
       IN SelectSeq(store.messages[data.id], Keep)

RECURSIVE SumTokens(_, _)
SumTokens(messages, field) ==
  IF messages = << >> THEN 0
  ELSE Or0(Head(messages).tokens, field) + SumTokens(Tail(messages), field)

RECURSIVE SumCost(_)
SumCost(messages) ==
  IF messages = << >> THEN 0 ELSE Head(messages).cost + SumCost(Tail(messages))

\* `if (msgData.modelID && !model) model = msgData.modelID`, over the messages
RECURSIVE FirstOf(_, _)
FirstOf(messages, field) ==
  IF messages = << >> THEN Undef
  ELSE IF Head(messages)[field] # Undef THEN Head(messages)[field]
  ELSE FirstOf(Tail(messages), field)

\* the body of POST /sync/session of the bulk path, lines 654-664
BulkSessionRequest(data, messages) ==
  [kind |-> "session",
   externalId |-> data.id,
   title |-> IF data.title # Undef THEN data.title
             ELSE IF data.slug # Undef THEN data.slug ELSE "Untitled",
   projectPath |-> data.directory,
   projectName |-> IF data.directory = Undef THEN Undef
                   ELSE LastSegment(data.directory),
   model |-> IF FirstOf(messages, "modelID") # Undef
             THEN FirstOf(messages, "modelID") ELSE "unknown",
   provider |-> IF FirstOf(messages, "providerID") # Undef
                THEN FirstOf(messages, "providerID") ELSE "opencode",
   promptTokens |-> SumTokens(messages, "input"),
   completionTokens |-> SumTokens(messages, "output"),
   cost |-> SumCost(messages)]

\* the body of POST /sync/message of the bulk path, lines 689-701
BulkMessageRequest(store, data, msg) ==
  [kind |-> "message",
   sessionExternalId |-> data.id,
   externalId |-> msg.id,
   role |-> msg.role,
   textContent |-> getMessageTextContent(store, msg.id),
   model |-> msg.modelID,
   promptTokens |-> Or0(msg.tokens, "input"),
   completionTokens |-> Or0(msg.tokens, "output")]

\* the request GET /sync/sessions/list
ListRequest == [kind |-> "list"]

RECURSIVE BulkMessageRequests(_, _, _)
BulkMessageRequests(store, data, messages) ==
  IF messages = << >> THEN << >>
  ELSE << BulkMessageRequest(store, data, Head(messages)) >>
       \o BulkMessageRequests(store, data, Tail(messages))

\* mutant: the messages are submitted whatever the session's request got
RECURSIVE LoopRequests_MessagesAnyway(_, _, _)
LoopRequests_MessagesAnyway(store, toSync, outcome) ==
  IF toSync = << >> THEN << >>
  ELSE LET data == Head(toSync)
           messages == CollectMessages(store, data)
       IN << BulkSessionRequest(data, messages) >>
          \o BulkMessageRequests(store, data, messages)
          \o LoopRequests_MessagesAnyway(store, Tail(toSync), outcome)

\* mutant: a session without a message directory is passed over
RECURSIVE LoopRequests_SkipNoDir(_, _, _)
LoopRequests_SkipNoDir(store, toSync, outcome) ==
  IF toSync = << >> THEN << >>
  ELSE LET data == Head(toSync)
           messages == CollectMessages(store, data)
       IN (IF data.id \notin DOMAIN store.messages THEN << >>
           ELSE << BulkSessionRequest(data, messages) >>
                \o (IF outcome[data.id] = "ok"
                    THEN BulkMessageRequests(store, data, messages) ELSE << >>))
          \o LoopRequests_SkipNoDir(store, Tail(toSync), outcome)

\* the requests of the loop over sessionsToSync, lines 589-718: the
\* messages of a session are submitted only after its own request got an
\* OK response
RECURSIVE LoopRequests(_, _, _)
LoopRequests(store, toSync, outcome) ==
  IF toSync = << >> THEN << >>
  ELSE LET data == Head(toSync)
           messages == CollectMessages(store, data)
       IN << BulkSessionRequest(data, messages) >>
          \o (IF outcome[data.id] = "ok"
              THEN BulkMessageRequests(store, data, messages) ELSE << >>)
          \o LoopRequests(store, Tail(toSync), outcome)

\* mutant: every selected session is taken as submitted
NewlySyncedIds_All(toSync, outcome) == [i \in DOMAIN toSync |-> toSync[i].id]

\* newlySyncedIds after the loop
RECURSIVE NewlySyncedIds(_, _)
NewlySyncedIds(toSync, outcome) ==
  IF toSync = << >> THEN << >>
  ELSE (IF outcome[Head(toSync).id] = "ok" THEN << Head(toSync).id >> ELSE << >>)
       \o NewlySyncedIds(Tail(toSync), outcome)

Ids(files) == [i \in DOMAIN files |-> files[i].id]

\* how each request of the loop settled, in the order of LoopRequests
RECURSIVE LoopResponses(_, _, _)
LoopResponses(store, toSync, outcome) ==
  IF toSync = << >> THEN << >>
  ELSE LET data == Head(toSync)
           messages == CollectMessages(store, data)
       IN << outcome[data.id] >>
          \o (IF outcome[data.id] = "ok"
              THEN [i \in DOMAIN messages |-> outcome[messages[i].id]] ELSE << >>)
          \o LoopResponses(store, Tail(toSync), outcome)

\* failedSessions after the loop: `failedSessions++` at lines 669 and 716
RECURSIVE FailedSessions(_, _)
FailedSessions(toSync, outcome) ==
  IF toSync = << >> THEN 0
  ELSE (IF outcome[Head(toSync).id] # "ok" THEN 1 ELSE 0)
       + FailedSessions(Tail(toSync), outcome)

\* mutant: every submitted message is counted
MessagesCounted_All(messages, outcome) == Len(messages)

\* `if (msgRes.ok) { msgCount++; syncedMessages++; }` over one session
MessagesCounted(messages, outcome) ==
  LET Ok(msg) == outcome[msg.id] = "ok" IN Len(SelectSeq(messages, Ok))

\* syncedMessages after the loop
RECURSIVE SyncedMessages(_, _, _)
SyncedMessages(store, toSync, outcome) ==
  IF toSync = << >> THEN 0
  ELSE (IF outcome[Head(toSync).id] = "ok"
        THEN MessagesCounted(CollectMessages(store, Head(toSync)), outcome) ELSE 0)
       + SyncedMessages(store, Tail(toSync), outcome)

\* mutant: the known IDs are not used to filter
SessionsToSync_All(sessions, alreadySynced) == sessions

\* `sessions.filter((s) => !alreadySynced.has(s.data.id))`, line 571
SessionsToSync(sessions, alreadySynced) ==
  LET Keep(f) == f.id \notin Range(alreadySynced) IN SelectSeq(sessions, Keep)

\* alreadySynced, lines 553-568, given the tracking file at that moment
AlreadySyncedFor(mode, file, reply) ==
  IF mode = "all" THEN fetchBackendSessionIds(reply)
  ELSE IF mode = "new" THEN getSyncedSessions(file)
  ELSE << >>

\* what a run that stops before the scan leaves behind
NoScan(file) ==
  [tracking |-> file, requests |-> << >>, responses |-> << >>, scanned |-> FALSE,
   found |-> << >>, known |-> << >>, selected |-> << >>, succeeded |-> << >>,
   summary |-> FALSE, syncedSessionCount |-> 0, failedSessions |-> 0,
   skippedCount |-> 0, syncedMessages |-> 0, crashed |-> FALSE]

\* syncAllSessions(siteUrl, apiKey, mode), lines 481-738, given the tracking
\* file as sync() left it, the answer to the list query and the outcome of
\* each session's request
syncAllSessions(mode, file, reply, outcome) ==
  IF ~Has(localStore) THEN NoScan(file)
  ELSE
    LET store == Get(localStore)
        sessions == CollectSessions(store)
        alreadySynced == AlreadySyncedFor(mode, file, reply)
        toSync == SessionsToSync(sessions, alreadySynced)
        listing == IF mode = "all" THEN << ListRequest >> ELSE << >>
        newly == NewlySyncedIds(toSync, outcome)
    IN IF sessions = << >>
       THEN [NoScan(file) EXCEPT !.scanned = TRUE]
       ELSE IF mode = "new" /\ TrackingReadEscapes(TrackingParseThrows(file))
       THEN [NoScan(file) EXCEPT !.scanned = TRUE, !.found = Ids(sessions),
                                 !.crashed = TRUE]
       ELSE [tracking |-> IF newly # << >> THEN addSyncedSessions(file, newly)
                          ELSE file,
             requests |-> listing \o LoopRequests(store, toSync, outcome),
             responses |-> (IF mode = "all" THEN << reply.status >> ELSE << >>)
                           \o LoopResponses(store, toSync, outcome),
             scanned |-> TRUE,
             found |-> Ids(sessions),
             known |-> alreadySynced,
             selected |-> Ids(toSync),
             succeeded |-> newly,
             summary |-> toSync # << >>,
             syncedSessionCount |-> Len(newly),
             failedSessions |-> FailedSessions(toSync, outcome),
             skippedCount |-> Len(sessions) - Len(toSync),
             syncedMessages |-> SyncedMessages(store, toSync, outcome),
             crashed |-> FALSE]

\* the flags of one invocation; without any of them sync() runs the
\* connectivity test, which is no bulk run
BulkFlags == {"--new", "--all", "--force"}
FlagSets == (SUBSET BulkFlags) \ {{}}

\* mutant: the flags are tested in the opposite order
ModeOf_NewFirst(flags) ==
  IF "--new" \in flags THEN "new"
  ELSE IF "--all" \in flags THEN "all"
  ELSE "force"

\* the strategy sync() chooses, lines 362-387
ModeOf(flags) ==
  IF "--force" \in flags THEN "force"
  ELSE IF "--all" \in flags THEN "all"
  ELSE "new"

\* mutant: only a missing file counts as missing configuration
NotConfigured_NoKeyCheck == ~Has(getConfig)

\* the guard of sync(), line 367
NotConfigured ==
  \/ ~Has(getConfig)
  \/ Get(getConfig).apiKey = Undef
  \/ Get(getConfig).convexUrl = Undef

\* sync(), lines 361-388
syncRun(flags, reply, outcome) ==
  IF NotConfigured THEN NoScan(trackingFile)
  ELSE IF ModeOf(flags) = "force"
  THEN syncAllSessions("force", clearSyncedSessions(trackingFile), reply, outcome)
  ELSE syncAllSessions(ModeOf(flags), trackingFile, reply, outcome)

\* how the submit-session requests of one run may settle: a session no
\* request can be issued for (the configuration is missing, or the archive
\* holds no session of that ID) has no outcome to choose
RequestOutcomes ==
  LET local == IF NotConfigured \/ ~Has(localStore) THEN {}
               ELSE Range(Ids(CollectSessions(Get(localStore))))
  IN {o \in [SessIds -> Outcomes] : \A id \in SessIds \ local : o[id] = "ok"}

\* the messages of the archive that belong to a collected session
LocalMessageIds ==
  IF NotConfigured \/ ~Has(localStore) THEN {}
  ELSE LET store == Get(localStore)
           sessions == CollectSessions(store)
       IN UNION {Range(Ids(CollectMessages(store, sessions[i]))) : i \in DOMAIN sessions}

\* how the submit-message requests of one run may settle, drawn from a set
\* of outcomes
MessageOutcomes(outcomes) ==
  {o \in [MsgIds -> outcomes \cup {"ok"}] :
     \A id \in MsgIds \ LocalMessageIds : o[id] = "ok"}

\* one run of opencode-sync sync, its flags and the outcomes of its
\* submit-message requests drawn from the given sets
SyncWith(flagSets, msgOutcomes) ==
  /\ nEvents < MaxEvents
  /\ \E flags \in flagSets :
     \E reply \in RepliesFor(ModeOf(flags)), sessOutcome \in RequestOutcomes,
        msgOutcome \in MessageOutcomes(msgOutcomes) :
       \E run \in {syncRun(flags, reply, sessOutcome @@ msgOutcome)} :
          /\ trackingFile' = run.tracking
          /\ cliOut' = run.requests
          /\ lastRun' = Some([run |-> nEvents + 1,
                              flags |-> flags,
                              config |-> configFile,
                              configured |-> ~NotConfigured,
                              before |-> trackingFile,
                              reply |-> reply,
                              responses |-> run.responses,
                              scanned |-> run.scanned,
                              found |-> run.found,
                              known |-> run.known,
                              selected |-> run.selected,
                              succeeded |-> run.succeeded,
                              summary |-> run.summary,
                              syncedSessionCount |-> run.syncedSessionCount,
                              failedSessions |-> run.failedSessions,
                              skippedCount |-> run.skippedCount,
                              syncedMessages |-> run.syncedMessages,
                              crashed |-> run.crashed])
  /\ nEvents' = nEvents + 1
  /\ scen' = Never
  /\ UNCHANGED <<progVars, localStore, proc>>
  /\ UNCHANGED <<burstObs, textHist, toolHist, lastInfo, createdObs, metaLog,
                 sentSessions>>
  /\ UNCHANGED <<faultVars, lastEvent>>

\* one run of opencode-sync sync with at least one of the three flags; the
\* submit-message requests get OK responses
Sync == SyncWith(FlagSets, {"ok"})

\* the CLI starts with any tracking file and any archive on disk
InitBulk ==
  /\ configFile \in {None, Some(FullConfig), Some(UrlOnlyConfig)}
  /\ PluginLoaded
  /\ trackingFile \in TrackingFiles
  /\ localStore \in Archives
  /\ cliOut = << >>
  /\ lastRun = None
  /\ proc = Idle

NextBulk ==
  \/ Sync
  \/ Login
  \/ Logout

SpecBulk == InitBulk /\ [][NextBulk]_vars

\* runs in the modes new and all in which a submit-message request may
\* fail as well
SyncOutcomes == SyncWith({{"--new"}, {"--all"}}, Outcomes)

NextSummary ==
  \/ SyncOutcomes
  \/ Login
  \/ Logout

SpecSummary == InitBulk /\ [][NextSummary]_vars

\* runs in the modes new and force, one after the other
SyncNewOrForce == SyncWith({{"--new"}, {"--force"}, {"--new", "--force"}}, {"ok"})

NextRerun ==
  \/ SyncNewOrForce
  \/ Logout

SpecRerun == InitBulk /\ [][NextRerun]_vars

----------------------------------------------------------------------------
(* The bulk run step by step: syncAllSessions suspends at every             *)
(* `await fetch(...)` (src/src/cli.ts 464, 648, 683) and goes on when the   *)
(* response arrives. proc.inFlight holds the requests sent and not yet      *)
(* answered, proc.log the sending and the answering of each request,        *)
(* proc.results how each request settled, proc.mode and proc.start the      *)
(* strategy of the run and the tracking file it found.                      *)

\* mutant: the request is sent without waiting for the one before
Awaited_NoAwait(inFlight) == TRUE

\* `await`: the code after a fetch runs when its response has arrived
Awaited(inFlight) == inFlight = {}

Sent(r) == [ev |-> "sent", req |-> r]
Answered(r) == [ev |-> "answered", req |-> r]

\* the loop is entered with the sessions to sync, lines 571-589
EnterLoop(toSync) ==
  [Idle EXCEPT !.pc = "loop", !.toSync = toSync]

\* sync() and syncAllSessions up to the first fetch, lines 361-388 and
\* 481-589: in mode all the list query is sent, in the other modes the
\* selection is made at once
StepBegin ==
  /\ proc.pc = "idle"
  /\ nEvents < MaxEvents
  /\ \E flags \in FlagSets :
       LET mode == ModeOf(flags)
           file == IF ~NotConfigured /\ mode = "force"
                   THEN clearSyncedSessions(trackingFile) ELSE trackingFile
           sessions == IF Has(localStore) THEN CollectSessions(Get(localStore))
                       ELSE << >>
       IN /\ trackingFile' = file
          /\ cliOut' = IF ~NotConfigured /\ sessions # << >> /\ mode = "all"
                        THEN << ListRequest >> ELSE << >>
          /\ proc' = IF NotConfigured \/ sessions = << >> THEN Idle
                      ELSE IF mode = "all"
                      THEN [Idle EXCEPT !.pc = "listing", !.inFlight = {ListRequest},
                                        !.log = << Sent(ListRequest) >>,
                                        !.mode = mode, !.start = trackingFile]
                      ELSE [EnterLoop(SessionsToSync(sessions,
                                        AlreadySyncedFor(mode, file, NoReply)))
                              EXCEPT !.mode = mode, !.start = trackingFile]
  /\ nEvents' = nEvents + 1
  /\ scen' = Never
  /\ UNCHANGED <<progVars, localStore, lastRun>>
  /\ UNCHANGED <<burstObs, textHist, toolHist, lastInfo, createdObs, metaLog,
                 sentSessions>>
  /\ UNCHANGED <<faultVars, lastEvent>>

\* the answer to the list query arrives, lines 470-477, and the selection
\* is made
StepListDone ==
  /\ proc.pc = "listing"
  /\ \E reply \in RemoteReplies :
       proc' = [EnterLoop(SessionsToSync(CollectSessions(Get(localStore)),
                                         AlreadySyncedFor("all", trackingFile, reply)))
                  EXCEPT !.log = Append(proc.log, Answered(ListRequest)),
                         !.mode = proc.mode, !.start = proc.start]
  /\ UNCHANGED <<progVars, obsVars, faultVars, lastEvent, trackingFile, localStore, cliOut, lastRun>>

\* the loop sends its next request: the next message of the session whose
\* request succeeded, or else the request of the next session
StepIssue ==
  /\ proc.pc = "loop"
  /\ Awaited(proc.inFlight)
  /\ proc.messages # << >> \/ proc.toSync # << >>
  /\ LET store == Get(localStore)
         r == IF proc.messages # << >>
              THEN BulkMessageRequest(store, Get(proc.current), Head(proc.messages))
              ELSE BulkSessionRequest(Head(proc.toSync),
                                      CollectMessages(store, Head(proc.toSync)))
     IN /\ cliOut' = Append(cliOut, r)
        /\ proc' = IF proc.messages # << >>
                    THEN [proc EXCEPT !.messages = Tail(proc.messages),
                                      !.inFlight = proc.inFlight \cup {r},
                                      !.log = Append(proc.log, Sent(r))]
                    ELSE [proc EXCEPT !.toSync = Tail(proc.toSync),
                                      !.current = Some(Head(proc.toSync)),
                                      !.inFlight = proc.inFlight \cup {r},
                                      !.log = Append(proc.log, Sent(r))]
  /\ UNCHANGED <<progVars, obsVars, faultVars, lastEvent, trackingFile, localStore, lastRun>>

\* a request of the loop is answered: an OK answer to a session's request
\* makes the session newly synced and its messages the next to send
StepDone ==
  /\ proc.pc = "loop"
  /\ \E r \in proc.inFlight, outcome \in Outcomes :
       proc' = IF r.kind = "session" /\ outcome = "ok"
               THEN [proc EXCEPT !.inFlight = proc.inFlight \ {r},
                                 !.log = Append(proc.log, Answered(r)),
                                 !.results = Append(proc.results,
                                                    [req |-> r, outcome |-> outcome]),
                                 !.newly = Append(proc.newly, r.externalId),
                                 !.messages = CollectMessages(Get(localStore),
                                                              Get(proc.current))]
               ELSE [proc EXCEPT !.inFlight = proc.inFlight \ {r},
                                 !.log = Append(proc.log, Answered(r)),
                                 !.results = Append(proc.results,
                                                    [req |-> r, outcome |-> outcome])]
  /\ UNCHANGED <<progVars, obsVars, faultVars, lastEvent, trackingFile, localStore, cliOut, lastRun>>

\* the loop is over, lines 720-738: the IDs submitted with success are
\* added to the tracking record
StepFinish ==
  /\ proc.pc = "loop"
  /\ proc.inFlight = {} /\ proc.messages = << >> /\ proc.toSync = << >>
  /\ trackingFile' = IF proc.newly # << >>
                      THEN addSyncedSessions(trackingFile, proc.newly)
                      ELSE trackingFile
  /\ proc' = [proc EXCEPT !.pc = "idle"]
  /\ UNCHANGED <<progVars, obsVars, faultVars, lastEvent, localStore, cliOut, lastRun>>

NextAwait ==
  \/ StepBegin
  \/ StepListDone
  \/ StepIssue
  \/ StepDone
  \/ StepFinish

SpecAwait == InitBulk /\ [][NextAwait]_vars

----------------------------------------------------------------------------
(* Properties *)

\* the submit-message requests issued so far for message m
MessageRequests(m) ==
  {i \in 1..Len(outbox) : outbox[i].kind = "message" /\ outbox[i].externalId = m}

PendingTimers(m) == {t \in timers : t.messageId = m}

\* every character of s is white space
IsBlankText(s) == \A i \in 1..Len(s) : At(s, i) \in WhiteSpace

\* the text a text event carries: part.text, or the empty text when it has none
TextOfEvent(tx) == IF Has(tx) THEN Get(tx) ELSE ""

\* C1: at most one submit-message request is ever issued for a message ID,
\* also when qualifying events for it arrive after it was forwarded.
C1_ForwardedAtMostOnce ==
  \A m \in MsgIds : Cardinality(MessageRequests(m)) <= 1

\* m1 was forwarded, then a new non-blank text arrived for it and its timer ran
C1_Witness ==
  /\ Cardinality(MessageRequests("m1")) = 1
  /\ "m1" \in syncedMessages
  /\ "m1" \in DOMAIN messagePartsText
  /\ ~IsBlankText(Join(messagePartsText["m1"]))
  /\ attempts["m1"] = 1
  /\ ~ConfigIncomplete

\* C3: no submit-message request carries a text that is empty after trimming
\* together with no tool part.
C3_NoEmptyForward ==
  \A i \in 1..Len(outbox) :
    outbox[i].kind = "message" =>
      ~(IsBlankText(outbox[i].textContent)
        /\ (~Has(outbox[i].parts) \/ Len(Get(outbox[i].parts)) = 0))

\* with credentials present, the timer of m1 ran on real metadata and a blank
\* text, and nothing was sent
C3_Witness ==
  /\ ~ConfigIncomplete
  /\ "m1" \in DOMAIN messageMetadata
  /\ messageMetadata["m1"].role = "user"
  /\ "m1" \in DOMAIN messagePartsText
  /\ messagePartsText["m1"] = << " " >>
  /\ "m1" \notin DOMAIN messageToolParts
  /\ attempts["m1"] = 1
  /\ MessageRequests("m1") = {}

\* C4: before a message is forwarded, its buffered text is exactly the text of
\* its last text event.
C4_TextIsLastSnapshot ==
  \A m \in MsgIds :
    (m \notin syncedMessages /\ textHist[m] # << >>) =>
      /\ m \in DOMAIN messagePartsText
      /\ messagePartsText[m] = << TextOfEvent(textHist[m][Len(textHist[m])]) >>

\* two text events with different non-empty texts arrived for m1
C4_Witness ==
  /\ "m1" \notin syncedMessages
  /\ Len(textHist["m1"]) = 2
  /\ textHist["m1"][1] = Some(" ")
  /\ textHist["m1"][2] = Some("Fix the bug")

\* C5: before a message is forwarded, its buffered tool-part list holds one
\* entry per tool event, in the order of the events.
C5_ToolPartsAppend ==
  \A m \in MsgIds :
    m \notin syncedMessages =>
      LET buf == IF m \in DOMAIN messageToolParts THEN messageToolParts[m] ELSE << >>
      IN /\ Len(buf) = Len(toolHist[m])
         /\ \A i \in 1..Len(buf) :
              /\ buf[i].type = "tool-call"
              /\ buf[i].content.id = toolHist[m][i].id
              /\ buf[i].content.name = toolHist[m][i].tool

\* three tool events arrived for m1, the second unlike the first and the third
C5_Witness ==
  /\ "m1" \notin syncedMessages
  /\ Len(toolHist["m1"]) = 3
  /\ toolHist["m1"][1].id = "p1"
  /\ toolHist["m1"][2].id = "p2"
  /\ toolHist["m1"][3].id = "p1"

\* C6: a message ID has at most one pending timer, which is the one syncTimeouts
\* names; a timer that has fired leaves no entry behind.
C6_OneTimerPerMessage ==
  \A m \in MsgIds :
    /\ Cardinality(PendingTimers(m)) <= 1
    /\ m \in DOMAIN syncTimeouts <=> PendingTimers(m) # {}
    /\ \A t \in PendingTimers(m) : syncTimeouts[m] = t.id

\* m1 was rescheduled while its timer was pending: the new timer got a handle
\* other than the pending one's, and it alone is pending, with the full delay
C6_Witness ==
  /\ sinceLast["m2"] = Never
  /\ "m1" \in DOMAIN syncTimeouts
  /\ syncTimeouts["m1"] = 2
  /\ PendingTimers("m1") = {[id |-> 2, messageId |-> "m1", remaining |-> DEBOUNCE_MS]}

C9_ReleasedForever ==
  \A m \in syncedMessages :
    /\ m \notin DOMAIN messagePartsText
    /\ m \notin DOMAIN messageToolParts
    /\ m \notin DOMAIN messageMetadata

\* C8 as stated: after an accepted metadata, text or tool event for m, exactly
\* one timer is pending for m and it expires a full window after that event.
C8_EveryEventRestarts ==
  \A m \in MsgIds :
    (sinceLast[m] # Never /\ sinceLast[m] < DEBOUNCE_MS) =>
      \E t \in timers :
        /\ PendingTimers(m) = {t}
        /\ t.remaining = DEBOUNCE_MS - sinceLast[m]

\* C2 as stated: a burst of accepted events for m is followed by exactly one
\* forward attempt, one window after the last event of the burst, and what is
\* sent is the text and the tool parts as they stood after that event.
C2_BurstForwardsOnce ==
  \A m \in MsgIds :
    sinceLast[m] # Never =>
      /\ attempts[m] <= 1
      /\ sinceLast[m] < DEBOUNCE_MS => attempts[m] = 0
      /\ sinceLast[m] = DEBOUNCE_MS =>
           \/ attempts[m] = 1
           \/ \E t \in PendingTimers(m) : t.remaining = 0
      /\ \A i \in MessageRequests(m) :
           /\ outbox[i].textContent =
                IF textHist[m] = << >> THEN ""
                ELSE TextOfEvent(textHist[m][Len(textHist[m])])
           /\ Len(toolHist[m]) = IF Has(outbox[i].parts) THEN Len(Get(outbox[i].parts)) ELSE 0

\* C8 as amended: after a text or tool event for m, or an accepted metadata
\* event for m while a text entry is buffered for m, exactly one timer is
\* pending for m and it expires a full window after that event; any other
\* accepted metadata event leaves the timers as they were, so every pending
\* timer still expires a full window after the last event that started it.
C8_StartingEventRestarts ==
  /\ \A m \in MsgIds :
       (sinceArm[m] # Never /\ sinceArm[m] < DEBOUNCE_MS) =>
         \E t \in timers :
           /\ PendingTimers(m) = {t}
           /\ t.remaining = DEBOUNCE_MS - sinceArm[m]
  /\ \A t \in timers :
       /\ sinceArm[t.messageId] # Never
       /\ t.remaining = DEBOUNCE_MS - sinceArm[t.messageId]

\* a text event started the timer of m1, and with that timer still running an
\* accepted metadata event replaced it by a new one with the full delay
C8_Witness ==
  /\ Len(textHist["m1"]) = 1
  /\ toolHist["m1"] = << >>
  /\ Has(lastInfo["m1"])
  /\ burstLen["m1"] = 2
  /\ sinceArm["m1"] = 0
  /\ PendingTimers("m1") = {[id |-> 2, messageId |-> "m1", remaining |-> DEBOUNCE_MS]}

\* C2 as amended: a burst of events that start the timer of m (text events, tool
\* events, metadata events while a text entry is buffered), each less than a
\* window after the previous one, is followed by exactly one forward attempt,
\* not before a window has passed since the last of them; a request it issues
\* carries the text of the last text event, one part per tool event, and the
\* role and session of the last accepted metadata event.
C2_StartedBurstForwardsOnce ==
  \A m \in MsgIds :
    sinceArm[m] # Never =>
      /\ armAttempts[m] <= 1
      /\ sinceArm[m] < DEBOUNCE_MS => armAttempts[m] = 0
      /\ sinceArm[m] = DEBOUNCE_MS =>
           \/ armAttempts[m] = 1 /\ PendingTimers(m) = {}
           \/ armAttempts[m] = 0 /\ \E t \in timers : PendingTimers(m) = {t} /\ t.remaining = 0
      /\ \A i \in MessageRequests(m) :
           /\ outbox[i].textContent =
                IF textHist[m] = << >> THEN ""
                ELSE TextOfEvent(textHist[m][Len(textHist[m])])
           /\ Len(toolHist[m]) = IF Has(outbox[i].parts) THEN Len(Get(outbox[i].parts)) ELSE 0
           /\ Has(lastInfo[m]) =>
                /\ outbox[i].role = Get(lastInfo[m]).role
                /\ outbox[i].sessionExternalId = Get(lastInfo[m]).sessionID
                /\ outbox[i].model = Get(lastInfo[m]).modelID

\* a burst of three events for m1 (two texts, then metadata), each arriving
\* while the timer of the previous one was running, was followed by one
\* attempt, which sent the second text under the role of the metadata event
C2_Witness ==
  /\ burstLen["m1"] = 3
  /\ armAttempts["m1"] = 1
  /\ sinceArm["m1"] = DEBOUNCE_MS
  /\ textHist["m1"] = << Some(" "), Some("Fix the bug") >>
  /\ Has(lastInfo["m1"])
  /\ Get(lastInfo["m1"]).role = "assistant"
  /\ \E i \in MessageRequests("m1") :
       /\ outbox[i].textContent = "Fix the bug"
       /\ outbox[i].role = "assistant"

\* C10 as stated: after the scenario and the expiry of the timer, the buffer
\* still holds role "user" and text "Fix the bug" for m1 and exactly one
\* submit-message request was issued for m1.
C10_ScenarioBufferKept ==
  scen = 4 =>
    /\ "m1" \in DOMAIN messageMetadata
    /\ messageMetadata["m1"].role = "user"
    /\ "m1" \in DOMAIN messagePartsText
    /\ Join(messagePartsText["m1"]) = "Fix the bug"
    /\ Cardinality(MessageRequests("m1")) = 1

\* C10 as amended: in the scenario the buffer holds role "user" and text
\* "Fix the bug" for m1 while the window runs; once the timer has fired the
\* entries of m1 are released, and with the API key and the backend URL
\* configured exactly one submit-message request was issued for m1, with role
\* "user", text "Fix the bug" and session "s1".
C10_Scenario ==
  /\ scen = 3 =>
       /\ messageMetadata["m1"].role = "user"
       /\ messageMetadata["m1"].sessionId = "s1"
       /\ messagePartsText["m1"] = << "Fix the bug" >>
       /\ MessageRequests("m1") = {}
       /\ Cardinality(PendingTimers("m1")) = 1
  /\ scen = 4 =>
       /\ "m1" \in syncedMessages
       /\ "m1" \notin DOMAIN messageMetadata
       /\ "m1" \notin DOMAIN messagePartsText
       /\ "m1" \notin DOMAIN messageToolParts
       /\ ~ConfigIncomplete =>
            /\ Cardinality(MessageRequests("m1")) = 1
            /\ \A i \in MessageRequests("m1") :
                 /\ outbox[i].role = "user"
                 /\ outbox[i].textContent = "Fix the bug"
                 /\ outbox[i].sessionExternalId = "s1"

\* the scenario has run to the end with credentials present
C10_Witness ==
  /\ scen = 4
  /\ ~ConfigIncomplete
  /\ Cardinality(MessageRequests("m1")) = 1

\* C11 as stated: a message ID is in the forwarded-ID set only when a
\* submit-message request was issued for it; an attempt that issues none
\* leaves the ID unmarked.
C11_MarkedOnlyWhenSent ==
  \A m \in syncedMessages : MessageRequests(m) # {}

\* what one metadata event contributes to the totals of its session
Contribution(info) ==
  LET tk == IF Has(info.tokens) THEN Get(info.tokens) ELSE NoTokens
  IN [promptTokens |-> tk.input,
      completionTokens |-> tk.output,
      cacheCreationTokens |-> IF Has(tk.cache) /\ Get(tk.cache).write # 0
                              THEN Get(tk.cache).write ELSE tk.cache_creation,
      cacheReadTokens |-> IF Has(tk.cache) /\ Get(tk.cache).read # 0
                          THEN Get(tk.cache).read ELSE tk.cache_read,
      cost |-> info.cost]

TotalFields ==
  {"promptTokens", "completionTokens", "cacheCreationTokens", "cacheReadTokens", "cost"}

\* the sum of one field of the contributions of the events of a log
RECURSIVE SumOfLog(_, _)
SumOfLog(log, field) ==
  IF log = << >> THEN 0
  ELSE Contribution(Head(log))[field] + SumOfLog(Tail(log), field)

\* C15: the statistics entry of a session holds, for each of the five totals,
\* the sum over all accepted metadata events processed so far for the session;
\* a session without such an event has no entry.
C15_TotalsAreSums ==
  \A s \in SessIds :
    IF metaLog[s] = << >> THEN s \notin DOMAIN sessionStats
    ELSE /\ s \in DOMAIN sessionStats
         /\ \A f \in TotalFields : sessionStats[s][f] = SumOfLog(metaLog[s], f)

\* three metadata events were processed for s1: two with usage in different
\* shapes and one without usage
C15_Witness ==
  /\ Len(metaLog["s1"]) = 3
  /\ \E i, j, k \in 1..3 :
       /\ {i, j, k} = 1..3
       /\ Has(metaLog["s1"][i].tokens) /\ Has(Get(metaLog["s1"][i].tokens).cache)
       /\ Has(metaLog["s1"][j].tokens) /\ ~Has(Get(metaLog["s1"][j].tokens).cache)
       /\ ~Has(metaLog["s1"][k].tokens)
  /\ sessionStats["s1"].promptTokens = 17
  /\ sessionStats["s1"].cacheCreationTokens = 5

\* the model an info supplies, flat or nested; Undef when it supplies none
SuppliedModel(info) ==
  IF info.modelID # Undef THEN info.modelID
  ELSE IF Has(info.model) THEN Get(info.model).modelID ELSE Undef

SuppliesModel(info) == SuppliedModel(info) # Undef

\* C16: the model of the statistics entry of a session is the model of the
\* first accepted metadata event for the session that supplies one, whatever
\* later events supply; it is unset while no event has supplied one.
C16_ModelSetOnce ==
  \A s \in SessIds :
    LET supplying == SelectSeq(metaLog[s], SuppliesModel)
    IN IF supplying = << >>
       THEN s \in DOMAIN sessionStats => sessionStats[s].model = Undef
       ELSE /\ s \in DOMAIN sessionStats
            /\ sessionStats[s].model = SuppliedModel(supplying[1])

\* for s1 an event without a model came first, then one naming a model in
\* the nested shape, then one naming another model in the flat shape
C16_Witness ==
  /\ Len(metaLog["s1"]) = 3
  /\ ~SuppliesModel(metaLog["s1"][1])
  /\ Has(metaLog["s1"][2].model)
  /\ SuppliedModel(metaLog["s1"][2]) = "gpt-4o"
  /\ metaLog["s1"][3].modelID = "claude-sonnet-4-20250514"
  /\ sessionStats["s1"].model = "gpt-4o"

\* a step that issued a submit-session request
SessionRequestIssued ==
  /\ Len(outbox') = Len(outbox) + 1
  /\ outbox'[Len(outbox')].kind = "session"

\* C17 as stated: a session event leaves the statistics map unchanged (the
\* map changes only with an accepted metadata event), and the request it
\* emits carries the totals accumulated for the session up to that moment.
C17_RequestCarriesTotals ==
  [][/\ sessionStats' # sessionStats => metaLog' # metaLog
     /\ SessionRequestIssued =>
          LET r == outbox'[Len(outbox')]
          IN \A f \in TotalFields : r[f] = SumOfLog(metaLog[r.externalId], f)]_vars

\* the totals a session record itself carries
OwnTotalsOf(session) ==
  [promptTokens |-> Or0(session.tokens, "input"),
   completionTokens |-> Or0(session.tokens, "output"),
   cacheCreationTokens |-> Or0(session.tokens, "cache_creation"),
   cacheReadTokens |-> Or0(session.tokens, "cache_read"),
   cost |-> session.cost]

\* C17 as amended: a session event leaves the statistics map unchanged, and
\* the request it emits carries, for each total, the value accumulated for
\* the session up to that moment when that value is not zero, and otherwise
\* the value the session record itself carries (zero when it carries none).
C17_RequestCarriesTotalsOrOwn ==
  [][/\ sessionStats' # sessionStats => metaLog' # metaLog
     /\ SessionRequestIssued =>
          LET r == outbox'[Len(outbox')]
              accumulated == [f \in TotalFields |-> SumOfLog(metaLog[r.externalId], f)]
              own == OwnTotalsOf(sentSessions'[Len(sentSessions')])
          IN \A f \in TotalFields :
               r[f] = IF accumulated[f] # 0 THEN accumulated[f] ELSE own[f]]_vars

\* s1 was synced before any metadata event and again after one with usage:
\* the second request carries the totals of that event, and the entry is
\* still in the map
C17_Witness ==
  /\ Len(outbox) = 2
  /\ outbox[1].kind = "session" /\ outbox[1].externalId = "s1"
  /\ outbox[1].promptTokens = 0
  /\ outbox[2].kind = "session" /\ outbox[2].externalId = "s1"
  /\ outbox[2].promptTokens = 10 /\ outbox[2].cost = 3
  /\ sessionStats["s1"].promptTokens = 10

CredentialsAbsent ==
  \/ configFile = None
  \/ Get(configFile).apiKey = Undef
  \/ Get(configFile).convexUrl = Undef

\* C13: while the API key or the backend URL is absent, no step issues a
\* request and no step lets an error through to the host.
C13_SilentWithoutCredentials ==
  [][CredentialsAbsent => outbox' = outbox /\ hostErrors' = hostErrors]_vars

\* without credentials a session was created and the timer of m1 ran on a
\* non-blank text: m1 was tried, and nothing was sent
C13_Witness ==
  /\ CredentialsAbsent
  /\ "s1" \in syncedSessions
  /\ attempts["m1"] = 1
  /\ textHist["m1"] = << Some("Fix the bug") >>
  /\ outbox = << >>
  /\ hostErrors = 0

----------------------------------------------------------------------------
(* Properties of the bulk path, checked under SpecBulk *)

\* the configuration is missing: no file, no backend URL or no API key
ConfigurationMissing ==
  \/ ~Has(configFile)
  \/ Get(configFile).convexUrl = Undef
  \/ Get(configFile).apiKey = Undef

\* this step is a run of the sync command
BulkRunStep == lastRun' # lastRun

\* the IDs of the local sessions: the records of the archive with a
\* non-empty id, in the order of the scan
LocalSessionIds ==
  IF ~Has(localStore) THEN << >>
  ELSE LET files == Get(localStore).sessions
           WellFormed(f) == f.parses /\ f.id # "" /\ f.id # Undef
       IN Ids(SelectSeq(files, WellFormed))

\* the local session IDs outside a set of known IDs
LocalOutside(known) ==
  LET Unknown(id) == id \notin known IN SelectSeq(LocalSessionIds, Unknown)

\* the IDs a tracking file holds
TrackedIds(file) ==
  IF Has(file) /\ Get(file).parses /\ Has(Get(file).sessionIds)
  THEN Range(Get(Get(file).sessionIds)) ELSE {}

\* the IDs an answer to the list query makes known
RemoteKnownIds(reply) ==
  IF reply.status = "ok" /\ Has(reply.sessionIds)
  THEN Range(Get(reply.sessionIds)) ELSE {}

\* the session a request of the bulk path is about
SessionOfRequest(r) ==
  IF r.kind = "session" THEN r.externalId
  ELSE IF r.kind = "message" THEN r.sessionExternalId
  ELSE Undef

\* C14: a sync run with missing configuration (no config, no API key or no
\* backend URL), whatever flags it is given, issues no request, scans
\* nothing and leaves the tracking file as it was; --force does not clear it
C14_UnconfiguredRunDoesNothing ==
  [][(BulkRunStep /\ ConfigurationMissing)
       => /\ cliOut' = << >>
          /\ ~Get(lastRun').scanned
          /\ trackingFile' = trackingFile]_vars

\* a --force run without API key has happened, with a tracking record of two
\* IDs and an archive with sessions on disk
C14_Witness ==
  /\ Has(lastRun)
  /\ Get(lastRun).flags = {"--force"}
  /\ ~Get(lastRun).configured
  /\ configFile = Some(UrlOnlyConfig)
  /\ localStore = Some(MixedArchive)
  /\ trackingFile = Some(TrackingRecord(<<"s2", "s1">>))
  /\ cliOut = << >>

\* C18: in a configured --force run the tracking record is cleared before
\* the selection: every local session with a non-empty ID is selected, also
\* those whose ID was in the record before the run, and afterwards the
\* record holds exactly the IDs submitted with success in this run
C18_ForceSelectsEverything ==
  [][(BulkRunStep /\ ~ConfigurationMissing /\ "--force" \in Get(lastRun').flags)
       => /\ Get(lastRun').selected = LocalSessionIds
          /\ TrackedIds(trackingFile) \cap Range(LocalSessionIds)
                \subseteq Range(Get(lastRun').selected)
          /\ TrackedIds(trackingFile') = Range(Get(lastRun').succeeded)]_vars

\* a --force run selected s1 and s2 although both were in the record before,
\* and only the request of s2 succeeded
C18_Witness ==
  /\ Has(lastRun)
  /\ "--force" \in Get(lastRun).flags
  /\ Get(lastRun).configured
  /\ Get(lastRun).before = Some(TrackingRecord(<<"s2", "s1">>))
  /\ Get(lastRun).selected = <<"s1", "s2">>
  /\ trackingFile = Some(TrackingRecord(<<"s2">>))

\* C19: in a configured --new run the selected sessions are exactly the
\* local sessions whose ID is not in the tracking record as it was at the
\* start of the run, and no request is issued about a session whose ID is
\* in that record
C19_NewSkipsTracked ==
  [][(BulkRunStep /\ ~ConfigurationMissing /\ Get(lastRun').flags = {"--new"})
       => /\ Get(lastRun').selected = LocalOutside(TrackedIds(trackingFile))
          /\ \A i \in DOMAIN cliOut' :
                SessionOfRequest(cliOut'[i]) \notin TrackedIds(trackingFile)]_vars

\* a --new run found s1 and s2, s1 was in the record: only s2 was selected
\* and the only request is the one of s2
C19_Witness ==
  /\ Has(lastRun)
  /\ Get(lastRun).flags = {"--new"}
  /\ Get(lastRun).configured
  /\ Get(lastRun).before = Some(TrackingRecord(<<"s1">>))
  /\ Get(lastRun).found = <<"s1", "s2">>
  /\ Get(lastRun).selected = <<"s2">>
  /\ Len(cliOut) = 1
  /\ cliOut[1].kind = "session" /\ cliOut[1].externalId = "s2"

\* C20: in a configured --all run (without --force) the selected sessions
\* are exactly the local sessions whose ID is not among the IDs the list
\* query returned, whatever the tracking file holds; a query that throws,
\* gets a non-OK response or gets no ID array makes no ID known, and every
\* local session is selected
C20_AllUsesRemoteOnly ==
  [][(BulkRunStep /\ ~ConfigurationMissing /\ "--all" \in Get(lastRun').flags
        /\ "--force" \notin Get(lastRun').flags)
       => /\ Get(lastRun').selected = LocalOutside(RemoteKnownIds(Get(lastRun').reply))
          /\ (\/ Get(lastRun').reply.status # "ok"
              \/ ~Has(Get(lastRun').reply.sessionIds))
               => Get(lastRun').selected = LocalSessionIds]_vars

\* an --all run got a non-OK response to the list query while the tracking
\* record held s1 and s2: both were selected
C20_Witness ==
  /\ Has(lastRun)
  /\ "--all" \in Get(lastRun).flags /\ "--force" \notin Get(lastRun).flags
  /\ Get(lastRun).configured
  /\ Get(lastRun).reply.status = "non-ok"
  /\ Get(lastRun).before = Some(TrackingRecord(<<"s2", "s1">>))
  /\ Get(lastRun).selected = <<"s1", "s2">>
  /\ Len(cliOut) > 1
  /\ cliOut[1] = ListRequest

\* the configuration a run found was complete
RunConfigured(r) ==
  /\ Has(r.config)
  /\ Get(r.config).convexUrl # Undef
  /\ Get(r.config).apiKey # Undef

\* the strategy the flags of a run ask for: force before all before new
Chosen(r) ==
  IF "--force" \in r.flags THEN "force"
  ELSE IF "--all" \in r.flags THEN "all"
  ELSE "new"

\* C21: a configured bulk run follows exactly one strategy, force before all
\* before new: its selection is the one of the chosen strategy, the list
\* query is sent only when all is chosen, and unless force is chosen the
\* tracking record loses nothing (it is the record of before plus the IDs
\* submitted with success)
C21_OneStrategy ==
  (Has(lastRun) /\ RunConfigured(Get(lastRun))) =>
    LET r == Get(lastRun) IN
      /\ Chosen(r) = "force" => r.selected = LocalSessionIds
      /\ Chosen(r) = "all" => r.selected = LocalOutside(RemoteKnownIds(r.reply))
      /\ Chosen(r) = "new" => r.selected = LocalOutside(TrackedIds(r.before))
      /\ ListRequest \in Range(cliOut) => Chosen(r) = "all"
      /\ Chosen(r) # "force" =>
            TrackedIds(trackingFile) = TrackedIds(r.before) \cup Range(r.succeeded)

\* a run with --all and --new got a list that knows s1 and s2 while the
\* record held s1 only: the list decided, nothing was selected (new alone
\* would have selected s2) and the record kept s1
C21_Witness ==
  /\ Has(lastRun)
  /\ RunConfigured(Get(lastRun))
  /\ Get(lastRun).flags = {"--all", "--new"}
  /\ Get(lastRun).before = Some(TrackingRecord(<<"s1">>))
  /\ Get(lastRun).reply = Reply("ok", Some(<<"s2", "s1">>))
  /\ Get(lastRun).found = <<"s1", "s2">>
  /\ Get(lastRun).selected = << >>
  /\ cliOut = << ListRequest >>
  /\ trackingFile = Some(TrackingRecord(<<"s1">>))

\* the positions in cliOut of the submit-session requests that failed
FailedSessionRequests ==
  {i \in DOMAIN cliOut :
     cliOut[i].kind = "session" /\ Get(lastRun).responses[i] # "ok"}

\* the failed session of position i got no submit-message request and was
\* not submitted with success in this run
FailedSessionLeftOut(i) ==
  /\ \A j \in DOMAIN cliOut :
        cliOut[j].kind = "message" =>
          cliOut[j].sessionExternalId # cliOut[i].externalId
  /\ cliOut[i].externalId \notin Range(Get(lastRun).succeeded)

\* C22 as stated: a session whose submit-session request fails (non-OK
\* response or thrown error) gets no submit-message request, is counted as
\* failed, is not among the IDs this run adds to the tracking record, and so
\* is not in the record afterwards: a later run in mode new selects it again
C22_FailedSessionRetried ==
  Has(lastRun) =>
    /\ Get(lastRun).failedSessions = Cardinality(FailedSessionRequests)
    /\ \A i \in FailedSessionRequests :
          /\ FailedSessionLeftOut(i)
          /\ cliOut[i].externalId \notin TrackedIds(trackingFile)

\* C22 amended: as above, but the session is in the record afterwards
\* exactly when the record held its ID before a run in mode all
C22_FailedSessionNotAdded ==
  Has(lastRun) =>
    /\ Get(lastRun).failedSessions = Cardinality(FailedSessionRequests)
    /\ \A i \in FailedSessionRequests :
          /\ FailedSessionLeftOut(i)
          /\ cliOut[i].externalId \in TrackedIds(trackingFile)
                <=> (/\ Chosen(Get(lastRun)) = "all"
                     /\ cliOut[i].externalId \in TrackedIds(Get(lastRun).before))

\* a --new run submitted s1 with its two messages and s2, whose request was
\* rejected: s2 is counted as failed and only s1 entered the record
C22_Witness ==
  /\ Has(lastRun)
  /\ Get(lastRun).flags = {"--new"}
  /\ Get(lastRun).selected = <<"s1", "s2">>
  /\ Get(lastRun).responses = <<"ok", "ok", "ok", "rejected">>
  /\ Get(lastRun).failedSessions = 1
  /\ trackingFile = Some(TrackingRecord(<<"s1">>))

\* the tracking file cannot give any ID: it is missing, cannot be parsed or
\* holds no array of IDs
RecordUnreadable(file) ==
  \/ ~Has(file)
  \/ ~Get(file).parses
  \/ ~Has(Get(file).sessionIds)

\* every local session has its submit-session request in cliOut
AllLocalSubmitted ==
  \A k \in DOMAIN LocalSessionIds :
    \E i \in DOMAIN cliOut :
      cliOut[i].kind = "session" /\ cliOut[i].externalId = LocalSessionIds[k]

\* C23: a configured run in mode new that finds the tracking file missing,
\* unparsable or without an array of IDs does not raise: it reads the empty
\* set of known IDs, selects every local session and submits each of them
C23_UnreadableRecordIsEmpty ==
  (/\ Has(lastRun)
   /\ RunConfigured(Get(lastRun))
   /\ Chosen(Get(lastRun)) = "new"
   /\ RecordUnreadable(Get(lastRun).before))
    => /\ ~Get(lastRun).crashed
       /\ Get(lastRun).known = << >>
       /\ Get(lastRun).selected = LocalSessionIds
       /\ AllLocalSubmitted

\* a --new run found a tracking file that cannot be parsed, selected s1 and
\* s2 and wrote a new record with both
C23_Witness ==
  /\ Has(lastRun)
  /\ RunConfigured(Get(lastRun))
  /\ Get(lastRun).flags = {"--new"}
  /\ Get(lastRun).before = Some(CorruptRecord)
  /\ Get(lastRun).selected = <<"s1", "s2">>
  /\ ~Get(lastRun).crashed
  /\ trackingFile = Some(TrackingRecord(<<"s1", "s2">>))

\* the well-formed message files of the directory of session sid
GoodMessages(sid) ==
  IF ~Has(localStore) \/ sid \notin DOMAIN Get(localStore).messages THEN << >>
  ELSE LET WellFormed(f) ==
             f.parses /\ f.id # "" /\ f.id # Undef /\ f.sessionID = sid
       IN SelectSeq(Get(localStore).messages[sid], WellFormed)

\* the text of the text parts of message mid that can be parsed, in file
\* order; with needId, of those among them that have an id
GoodText(mid, needId) ==
  IF ~Has(localStore) \/ mid \notin DOMAIN Get(localStore).parts THEN ""
  ELSE LET WellFormed(f) ==
             /\ f.parses /\ f.type = "text"
             /\ needId => (f.id # "" /\ f.id # Undef)
           good == SelectSeq(Get(localStore).parts[mid], WellFormed)
       IN Join([k \in DOMAIN good |-> good[k].text])

\* the scan of a configured run that finds the archive collects every
\* well-formed session, the request of a session carries the tokens and
\* cost of all its well-formed messages, each of them is submitted once the
\* session's request succeeded, with the text of its well-formed text
\* parts, and the run does not abort
ScanSkipsOneByOne(partNeedsId) ==
  (Has(lastRun) /\ RunConfigured(Get(lastRun)) /\ Has(localStore)) =>
    /\ Get(lastRun).scanned /\ ~Get(lastRun).crashed
    /\ Get(lastRun).found = LocalSessionIds
    /\ \A i \in DOMAIN cliOut :
          cliOut[i].kind = "session" =>
            LET good == GoodMessages(cliOut[i].externalId) IN
              /\ cliOut[i].promptTokens = SumTokens(good, "input")
              /\ cliOut[i].completionTokens = SumTokens(good, "output")
              /\ cliOut[i].cost = SumCost(good)
              /\ Get(lastRun).responses[i] = "ok" =>
                    \A k \in DOMAIN good :
                      \E j \in DOMAIN cliOut :
                        /\ cliOut[j].kind = "message"
                        /\ cliOut[j].sessionExternalId = cliOut[i].externalId
                        /\ cliOut[j].externalId = good[k].id
                        /\ cliOut[j].textContent = GoodText(good[k].id, partNeedsId)

\* C24 as stated: a session, message or part file that cannot be parsed or
\* has no id is skipped on its own; every other session is collected, every
\* other message of a session is aggregated and submitted, with the text of
\* every other text part, and the scan does not abort
C24_BadFilesSkipped == ScanSkipsOneByOne(TRUE)

\* C24 amended: a session or message file that cannot be parsed or has no
\* id and a part file that cannot be parsed is skipped on its own; a part
\* file is not tested for an id
C24_BadFilesSkippedOneByOne == ScanSkipsOneByOne(FALSE)

\* a run over the archive with broken session, message and part files
\* collected s1 and s2 and submitted s1 with the tokens of m2, then m1 and
\* m2, the latter with the text of its two readable text parts, then s2
C24_Witness ==
  /\ Has(lastRun)
  /\ localStore = Some(MixedArchive)
  /\ Get(lastRun).found = <<"s1", "s2">>
  /\ Len(cliOut) = 4
  /\ cliOut[1].kind = "session" /\ cliOut[1].externalId = "s1"
  /\ cliOut[1].promptTokens = 3 /\ cliOut[1].cost = 2
  /\ cliOut[2].kind = "message" /\ cliOut[2].externalId = "m1"
  /\ cliOut[3].kind = "message" /\ cliOut[3].externalId = "m2"
  /\ cliOut[3].textContent = "Done, no id"
  /\ cliOut[4].kind = "session" /\ cliOut[4].externalId = "s2"

----------------------------------------------------------------------------
(* Properties of the bulk run step by step, checked under SpecAwait *)

\* the request sent at position i of the log was answered before position j
AnsweredBetween(i, j) ==
  \E k \in (i + 1)..(j - 1) : proc.log[k] = Answered(proc.log[i].req)

\* C25: at most one request of a bulk run is in flight at any time; a
\* message is sent only after the request of its session was answered, and
\* the request of a session is sent only after every request sent before it
\* was answered
C25_OneRequestAtATime ==
  /\ Cardinality(proc.inFlight) <= 1
  /\ \A j \in DOMAIN proc.log :
        (proc.log[j].ev = "sent" /\ proc.log[j].req.kind = "message") =>
          \E i \in 1..(j - 1) :
            /\ proc.log[i].ev = "answered"
            /\ proc.log[i].req.kind = "session"
            /\ proc.log[i].req.externalId = proc.log[j].req.sessionExternalId
  /\ \A j \in DOMAIN proc.log :
        (proc.log[j].ev = "sent" /\ proc.log[j].req.kind = "session") =>
          \A i \in 1..(j - 1) : proc.log[i].ev = "sent" => AnsweredBetween(i, j)

\* the request of s2 is in flight after the request of s1 and the two
\* messages of s1 were sent and answered one after the other
C25_Witness ==
  /\ Len(proc.log) = 7
  /\ proc.log[1].ev = "sent" /\ proc.log[1].req.kind = "session"
  /\ proc.log[3].ev = "sent" /\ proc.log[3].req.kind = "message"
  /\ proc.log[5].ev = "sent" /\ proc.log[5].req.kind = "message"
  /\ proc.log[6].ev = "answered"
  /\ proc.log[7].ev = "sent" /\ proc.log[7].req.kind = "session"
  /\ proc.log[7].req.externalId = "s2"
  /\ proc.inFlight = {proc.log[7].req}

-----------------------------------------------------------------------------
(* Properties of the requests of a bulk run, checked under SpecBulk *)

\* the positions of cliOut that hold a request of a kind
RequestsOfKind(kind) == {i \in DOMAIN cliOut : cliOut[i].kind = kind}

\* C26: a run over the archive whose one session is s2, with no message
\* directory for it, that selects s2 issues exactly one submit-session
\* request, with zero tokens and zero cost, and no submit-message request
C26_LoneSessionSubmittedEmpty ==
  (/\ Has(lastRun) /\ localStore = Some(LoneArchive)
   /\ Get(lastRun).selected = <<"s2">>) =>
    /\ Cardinality(RequestsOfKind("session")) = 1
    /\ \A i \in RequestsOfKind("session") :
          /\ cliOut[i].externalId = "s2"
          /\ cliOut[i].promptTokens = 0
          /\ cliOut[i].completionTokens = 0
          /\ cliOut[i].cost = 0
    /\ RequestsOfKind("message") = {}

\* sync --new over the archive of the one session s2 with an empty record
\* selected s2 and sent one request, the session's
C26_Witness ==
  /\ Has(lastRun) /\ localStore = Some(LoneArchive)
  /\ Get(lastRun).flags = {"--new"}
  /\ Get(lastRun).selected = <<"s2">>
  /\ Len(cliOut) = 1
  /\ cliOut[1].kind = "session" /\ cliOut[1].externalId = "s2"
  /\ cliOut[1].title = "calm-river"

\* the entry of the pricing table that C27 names: rates per million tokens
ClaimedRates ==
  [m \in {"claude-sonnet-4-20250514"} |-> [input |-> 3, output |-> 15]]

\* the cost C27 expects for a session: through the pricing table when the
\* model has an entry, the sum of the raw cost fields otherwise
ClaimedCost(model, promptTokens, completionTokens, rawCost) ==
  IF model \in DOMAIN ClaimedRates
  THEN (promptTokens * ClaimedRates[model].input
        + completionTokens * ClaimedRates[model].output) \div 1000000
  ELSE rawCost

\* C27 as stated: the cost of every submit-session request of a bulk run is
\* computed from its tokens and model through the pricing table (18 for
\* claude-sonnet-4-20250514 with a million tokens in and a million out), and
\* is the sum of the raw cost fields of the messages only when the model
\* has no entry
C27_CostFromPricingTable ==
  (Has(lastRun) /\ RunConfigured(Get(lastRun))) =>
    \A i \in RequestsOfKind("session") :
      cliOut[i].cost =
        ClaimedCost(cliOut[i].model, cliOut[i].promptTokens,
                    cliOut[i].completionTokens,
                    SumCost(GoodMessages(cliOut[i].externalId)))

-----------------------------------------------------------------------------
(* Properties of the summary of a bulk run, checked under SpecSummary *)

\* C28: in a run that reaches the summary, sessions synced plus sessions
\* failed is the number of selected sessions, selected plus skipped is the
\* number of local sessions found, and messages synced is the number of
\* submit-message requests that got an OK response
C28_SummaryCounts ==
  (Has(lastRun) /\ Get(lastRun).summary) =>
    LET r == Get(lastRun) IN
      /\ r.syncedSessionCount + r.failedSessions = Len(r.selected)
      /\ Len(r.selected) + r.skippedCount = Len(r.found)
      /\ r.syncedMessages =
           Cardinality({i \in RequestsOfKind("message") : r.responses[i] = "ok"})

\* a run over the archive with broken files selected s1 and skipped s2; s1
\* was accepted, m1 was refused and m2 accepted: one session synced, none
\* failed, one skipped, one message synced
C28_Witness ==
  /\ Has(lastRun) /\ Get(lastRun).summary
  /\ localStore = Some(MixedArchive)
  /\ Get(lastRun).selected = <<"s1">>
  /\ Get(lastRun).found = <<"s1", "s2">>
  /\ Get(lastRun).responses = <<"ok", "non-ok", "ok">>
  /\ Get(lastRun).syncedSessionCount = 1 /\ Get(lastRun).failedSessions = 0
  /\ Get(lastRun).skippedCount = 1 /\ Get(lastRun).syncedMessages = 1

-----------------------------------------------------------------------------
(* Properties of role inference, checked under SpecRoles *)

AssistantLeaning(text) ==
  \/ MatchOpener(text) \/ MatchFence(text) \/ MatchYesNo(text)
  \/ MatchBold(text) \/ MatchNumberedBold(text)

UserLeaning(text) == MatchQuestion(text) \/ MatchImperative(text) \/ MatchAt(text)

\* the submit-message requests sent so far
SentMessages == {i \in DOMAIN outbox : outbox[i].kind = "message"}

\* C29: the role inferred for a text is assistant when an assistant pattern
\* matches, whether or not a user pattern matches too; otherwise user when
\* a user pattern matches; otherwise assistant exactly when the text is
\* longer than 500 characters, so that a text of 500 characters and the
\* empty text give user; it is one of the two roles, and two messages with
\* the same text get the same role
C29_RoleInferredFromText ==
  /\ \A i \in SentMessages :
        LET text == outbox[i].textContent IN
          /\ outbox[i].role \in {"assistant", "user"}
          /\ outbox[i].role = "assistant" <=>
                \/ AssistantLeaning(text)
                \/ ~UserLeaning(text) /\ Len(text) > 500
  /\ \A i, j \in SentMessages :
        outbox[i].textContent = outbox[j].textContent => outbox[i].role = outbox[j].role

\* m1 and m2 were forwarded with the same text, which opens like an
\* assistant's and ends in a question mark: both as assistant
C29_Witness ==
  \E i, j \in SentMessages :
    /\ outbox[i].externalId = "m1" /\ outbox[j].externalId = "m2"
    /\ outbox[i].textContent = "Sure, can you fix it?"
    /\ outbox[j].textContent = "Sure, can you fix it?"
    /\ outbox[i].role = "assistant" /\ outbox[j].role = "assistant"

-----------------------------------------------------------------------------
(* Properties of the payload shapes of session events, checked under       *)
(* SpecShapes                                                              *)

\* the fields a payload carries at the location the claim names: under
\* info when info is present, flat otherwise
CarriedBy(props) ==
  IF Has(props.info) THEN Get(props.info)
  ELSE [id |-> props.id, title |-> props.title, directory |-> Undef,
        modelID |-> Undef, tokens |-> None, cost |-> 0]

\* the credentials were complete when the last event arrived
ConfiguredBefore(e) ==
  LET file == e.before[1]
  IN Has(file) /\ Get(file).convexUrl # Undef /\ Get(file).apiKey # Undef

\* the last event was a session.created of a session already seen
RepeatedCreate(e) ==
  e.type = "session.created" /\ CarriedBy(e.props).id \in e.before[2]

\* C30: a session event is read from the nested info when it is present
\* and from the flat payload otherwise: without an id there, nothing
\* changes; with one, the request is issued for that id and title, and it is
\* the request that every payload carrying the same fields in the other
\* shape produces
C30_NestedOrFlat ==
  Has(lastEvent) =>
    LET e == Get(lastEvent)
        carried == CarriedBy(e.props)
    IN /\ carried.id = Undef => progVars = e.before
       /\ (carried.id # Undef /\ ConfiguredBefore(e) /\ ~RepeatedCreate(e)) =>
            /\ Len(outbox) = Len(e.before[10]) + 1
            /\ outbox[Len(outbox)].externalId = carried.id
            /\ outbox[Len(outbox)].title =
                 (IF carried.title # Undef THEN carried.title ELSE "Untitled Session")
            /\ \A other \in ShapeProps :
                 CarriedBy(other) = carried =>
                   outbox[Len(outbox)] = SessionRequest(SessionInfoOf(other))

\* a session.updated event with the record of s1 in the flat shape arrived
\* after one with the same record nested under info: the two requests are
\* the same
C30_Witness ==
  /\ Has(lastEvent)
  /\ Get(lastEvent).type = "session.updated"
  /\ Get(lastEvent).props = [info |-> None, id |-> "s1", title |-> "Fix login"]
  /\ Get(lastEvent).previous =
       Some([info |-> Some(MkSession("s1", "Fix login")), id |-> Undef, title |-> Undef])
  /\ Len(outbox) = 2 /\ Len(Get(lastEvent).before[10]) = 1
  /\ outbox[1] = outbox[2]
  /\ outbox[2].externalId = "s1" /\ outbox[2].title = "Fix login"

-----------------------------------------------------------------------------
(* Properties of events of other types, checked under SpecOther *)

\* the five event types the handler acts on
HandledTypes ==
  {"session.created", "session.updated", "session.idle", "message.updated",
   "message.part.updated"}

\* C31: an event of another type than the five leaves the dedup sets, the
\* text, tool and metadata buffers, the statistics, the timers and the
\* requests issued as they were
C31_OtherTypesAreNoOps ==
  [][(lastEvent' # lastEvent /\ Get(lastEvent').type \notin HandledTypes)
       => UNCHANGED progVars]_vars

\* a session.deleted event that carries the record of s1 arrived while a
\* text was buffered and a timer was pending, and changed nothing
C31_Witness ==
  /\ Has(lastEvent)
  /\ Get(lastEvent).type = "session.deleted"
  /\ Has(Get(lastEvent).props.info)
  /\ Get(lastEvent).before = progVars
  /\ "m1" \in DOMAIN messagePartsText
  /\ timers # {}
  /\ outbox = << >>

-----------------------------------------------------------------------------
(* Properties that relate the bulk path to the live path, checked under    *)
(* SpecBulk                                                                *)

\* a field of a request, 0 when the request does not carry it
RequestField(r, field) == IF field \in DOMAIN r THEN r[field] ELSE 0

\* the four token totals of the live statistics
TokenTotals ==
  {"promptTokens", "completionTokens", "cacheCreationTokens", "cacheReadTokens"}

\* C32 as stated: the aggregate that the bulk scan submits for a session
\* holds the four token totals and the first model that the live statistics
\* hold after one metadata event per archived message, in file order
C32_BulkMirrorsLive ==
  (Has(lastRun) /\ RunConfigured(Get(lastRun))) =>
    \A i \in RequestsOfKind("session") :
      LET good == GoodMessages(cliOut[i].externalId)
          NamesModel(f) == f.modelID # Undef
          naming == SelectSeq(good, NamesModel)
      IN /\ \A f \in TokenTotals :
              RequestField(cliOut[i], f) = SumOfLog(good, f)
         /\ naming # << >> => cliOut[i].model = naming[1].modelID

\* the readable part files of message mid of a type
PartsOfType(mid, type) ==
  IF ~Has(localStore) \/ mid \notin DOMAIN Get(localStore).parts THEN << >>
  ELSE LET OfType(f) == f.parses /\ f.type = type
       IN SelectSeq(Get(localStore).parts[mid], OfType)

\* C33 as stated: no submit-message request of a bulk run is about an
\* archived message that has neither a text part nor a tool part
C33_NoEmptyBulkMessage ==
  \A j \in RequestsOfKind("message") :
    \/ PartsOfType(cliOut[j].externalId, "text") # << >>
    \/ PartsOfType(cliOut[j].externalId, "tool") # << >>

----------------------------------------------------------------------------
(* Properties of a timer expiry, checked under Spec *)

\* the step runs the timer callback of message m
TimerExpiryFor(m) == attempts'[m] = attempts[m] + 1

\* the text buffered for m, joined; the empty text when m has no text entry
BufferedText(m) ==
  IF m \in DOMAIN messagePartsText THEN Join(messagePartsText[m]) ELSE ""

\* m has a metadata entry and a text that is not blank or at least one tool part
Qualifies(m) ==
  /\ m \in DOMAIN messageMetadata
  /\ \/ ~IsBlankText(BufferedText(m))
     \/ m \in DOMAIN messageToolParts /\ Len(messageToolParts[m]) > 0

\* the three buffers hold for m what they held before the step
BuffersKept(m) ==
  /\ (m \in DOMAIN messagePartsText') = (m \in DOMAIN messagePartsText)
  /\ m \in DOMAIN messagePartsText => messagePartsText'[m] = messagePartsText[m]
  /\ (m \in DOMAIN messageToolParts') = (m \in DOMAIN messageToolParts)
  /\ m \in DOMAIN messageToolParts => messageToolParts'[m] = messageToolParts[m]
  /\ (m \in DOMAIN messageMetadata') = (m \in DOMAIN messageMetadata)
  /\ m \in DOMAIN messageMetadata => messageMetadata'[m] = messageMetadata[m]

\* C34: a timer expiry for a message that does not qualify issues no request,
\* leaves the forwarded set and the three buffers of the message as they were;
\* an expiry for a message that qualifies and was not forwarded puts it into
\* the forwarded set, drops its buffers and, with credentials present, issues
\* exactly one submit-message request for it.
C34_NonQualifyingExpiryIsNoOp ==
  [][\A m \in MsgIds :
       TimerExpiryFor(m) =>
         IF ~Qualifies(m)
         THEN /\ outbox' = outbox
              /\ syncedMessages' = syncedMessages
              /\ BuffersKept(m)
         ELSE m \notin syncedMessages =>
                /\ m \in syncedMessages'
                /\ m \notin DOMAIN messagePartsText'
                /\ m \notin DOMAIN messageToolParts'
                /\ m \notin DOMAIN messageMetadata'
                /\ ~ConfigIncomplete =>
                     /\ Len(outbox') = Len(outbox) + 1
                     /\ outbox'[Len(outbox')].kind = "message"
                     /\ outbox'[Len(outbox')].externalId = m
                     /\ outbox'[Len(outbox')].textContent = BufferedText(m)]_vars

\* the timer of m1 ran while m1 held the placeholder metadata and a blank text:
\* nothing was sent, m1 is not marked and its buffers are still there
C34_Witness ==
  /\ ~ConfigIncomplete
  /\ attempts["m1"] = 1
  /\ PendingTimers("m1") = {}
  /\ "m1" \in DOMAIN messageMetadata
  /\ messageMetadata["m1"].role = "unknown"
  /\ "m1" \in DOMAIN messagePartsText
  /\ messagePartsText["m1"] = << " " >>
  /\ "m1" \notin syncedMessages
  /\ MessageRequests("m1") = {}

----------------------------------------------------------------------------
(* Properties of the role of a forwarded message, checked under SpecMeta *)

\* what the Role Inferrer answers on a text, in the words of its patterns
RoleFromText(text) ==
  IF AssistantLeaning(text) \/ (~UserLeaning(text) /\ Len(text) > 500)
  THEN "assistant" ELSE "user"

\* the step appends a submit-message request for m to the outbox
ForwardsNow(m) ==
  /\ Len(outbox') = Len(outbox) + 1
  /\ outbox'[Len(outbox')].kind = "message"
  /\ outbox'[Len(outbox')].externalId = m

\* C35: the role of a submit-message request is the buffered metadata role when
\* there is one other than the unknown sentinel, and otherwise the role
\* inferred from the text accumulated at forward time, which is the empty text
\* for a message with tool parts only.
C35_RoleOfRequest ==
  [][\A m \in MsgIds :
       ForwardsNow(m) =>
         outbox'[Len(outbox')].role =
           IF /\ m \in DOMAIN messageMetadata
              /\ messageMetadata[m].role \notin {"unknown", Undef}
           THEN messageMetadata[m].role
           ELSE RoleFromText(BufferedText(m))]_vars

\* m1 was forwarded as assistant on its metadata although its text reads like
\* a user's
C35_Witness ==
  /\ Has(lastInfo["m1"])
  /\ Get(lastInfo["m1"]).role = "assistant"
  /\ textHist["m1"] = << Some("Fix the bug") >>
  /\ \E i \in MessageRequests("m1") :
       outbox[i].role = "assistant" /\ outbox[i].textContent = "Fix the bug"

\* the step handles neither a metadata event nor a timer expiry of m
NoMetadataEventNorExpiry(m) == metaLog' = metaLog /\ ~TimerExpiryFor(m)

\* C39: a part event never replaces a metadata entry that exists, so a message
\* for which an accepted metadata event was processed before it is forwarded
\* goes out with the role of the latest such event, whether the metadata came
\* before or after the parts, and never with an inferred role.
C39_MetadataRoleWins ==
  [][\A m \in MsgIds :
       /\ (NoMetadataEventNorExpiry(m) /\ m \in DOMAIN messageMetadata) =>
            /\ m \in DOMAIN messageMetadata'
            /\ messageMetadata'[m] = messageMetadata[m]
       /\ (ForwardsNow(m) /\ Has(lastInfo[m])) =>
            outbox'[Len(outbox')].role = Get(lastInfo[m]).role]_vars

\* the text of m1 arrived first and reads like an assistant's, its metadata
\* event with role user followed within the window, and m1 went out as user
C39_Witness ==
  /\ textHist["m1"] = << Some("Sure, can you fix it?") >>
  /\ toolHist["m1"] = << >>
  /\ Len(metaLog["s1"]) = 1
  /\ burstLen["m1"] = 2
  /\ Has(lastInfo["m1"])
  /\ Get(lastInfo["m1"]).role = "user"
  /\ \E i \in MessageRequests("m1") :
       outbox[i].role = "user" /\ outbox[i].textContent = "Sure, can you fix it?"

----------------------------------------------------------------------------
(* Liveness of the live path, checked under SpecLive *)

\* credentials are present, m is not forwarded and qualifies, and no event
\* will arrive any more
ReadyAndQuiet(m) ==
  /\ ~ConfigIncomplete
  /\ m \notin syncedMessages
  /\ Qualifies(m)
  /\ nEvents = MaxEvents

\* C36: with credentials present, a message that is not forwarded, that its
\* last text or tool event left with a text that is not blank or with a tool
\* part, and for which no further event arrives, is eventually the subject of
\* a submit-message request, provided timers whose delay elapsed do fire.
C36_QualifyingIsEventuallySent ==
  \A m \in MsgIds : ReadyAndQuiet(m) ~> (MessageRequests(m) # {})

\* every event was a part event of m1 that arrived before m1 was forwarded,
\* the last of them left it qualifying, and its request was issued afterwards
C36_Witness ==
  /\ ~ConfigIncomplete
  /\ nEvents = MaxEvents
  /\ Len(textHist["m1"]) + Len(toolHist["m1"]) = MaxEvents
  /\ attempts["m1"] = 1
  /\ Cardinality(MessageRequests("m1")) = 1

----------------------------------------------------------------------------
(* Properties of the tracking record over a bulk run, checked under SpecAwait *)

\* the IDs whose submit-session request got an OK response in the run
SucceededIds ==
  {proc.results[i].req.externalId :
     i \in {j \in DOMAIN proc.results :
              /\ proc.results[j].req.kind = "session"
              /\ proc.results[j].outcome = "ok"}}

\* the step ends the loop of the run
RunFinishes == proc.pc = "loop" /\ proc'.pc = "idle"

\* C37: when a bulk run has processed its whole selection, in any mode, the
\* tracking record holds the IDs it held when the run started (none of them
\* in force mode) and the IDs whose submit-session request succeeded in the
\* run, whatever became of their submit-message requests, and nothing else;
\* the run writes the record only after the last selected session has been
\* processed.
C37_RecordAfterRun ==
  [][/\ RunFinishes =>
          TrackedIds(trackingFile') =
            (IF proc.mode = "force" THEN {} ELSE TrackedIds(proc.start))
              \cup SucceededIds
     /\ (proc.pc \in {"listing", "loop"} /\ trackingFile' # trackingFile) =>
          /\ RunFinishes
          /\ proc.toSync = << >> /\ proc.messages = << >> /\ proc.inFlight = {}]_vars

\* a run in mode new that found s2 tracked has finished: the request of s1
\* succeeded, a request of one of its messages failed, and the record holds
\* s1 and s2
C37_Witness ==
  /\ proc.pc = "idle"
  /\ proc.mode = "new"
  /\ TrackedIds(proc.start) = {"s2"}
  /\ SucceededIds = {"s1"}
  /\ \E i \in DOMAIN proc.results :
       /\ proc.results[i].req.kind = "message"
       /\ proc.results[i].req.sessionExternalId = "s1"
       /\ proc.results[i].outcome # "ok"
  /\ TrackedIds(trackingFile) = {"s1", "s2"}

----------------------------------------------------------------------------
(* Properties of two bulk runs in a row, checked under SpecRerun *)

\* the positions of the submit-session requests of the run that has just
\* ended which did not get an OK response
FailedSubmits ==
  {i \in DOMAIN cliOut :
     cliOut[i].kind = "session" /\ Get(lastRun).responses[i] # "ok"}

\* the IDs of a sequence of requests at the positions of a set, in order
RECURSIVE IdsAt(_, _, _)
IdsAt(requests, positions, i) ==
  IF i > Len(requests) THEN << >>
  ELSE (IF i \in positions THEN << requests[i].externalId >> ELSE << >>)
       \o IdsAt(requests, positions, i + 1)

\* the step is a configured run in mode new that follows at once a configured
\* run in mode new or force which went through its selection
RerunStep ==
  /\ BulkRunStep
  /\ Has(lastRun)
  /\ Get(lastRun).configured /\ Get(lastRun).scanned /\ ~Get(lastRun).crashed
  /\ "--all" \notin Get(lastRun).flags \/ "--force" \in Get(lastRun).flags
  /\ Get(lastRun').run = Get(lastRun).run + 1
  /\ Get(lastRun').flags = {"--new"}
  /\ Get(lastRun').configured

\* C38: a run in mode new that follows at once a run in mode new or force,
\* the archive unchanged, selects exactly the sessions whose submit-session
\* request failed in that run; when none failed it selects no session and
\* issues no request.
C38_RerunSelectsFailed ==
  [][RerunStep =>
       /\ Get(lastRun').selected = IdsAt(cliOut, FailedSubmits, 1)
       /\ FailedSubmits = {} => cliOut' = << >>]_vars

\* the first run, in mode new or force, left s1 in the record and failed on
\* s2; the run in mode new that followed selected s2 alone
C38_Witness ==
  /\ Has(lastRun)
  /\ Get(lastRun).run = 2
  /\ Get(lastRun).flags = {"--new"}
  /\ Get(lastRun).configured
  /\ Get(lastRun).found = <<"s1", "s2">>
  /\ TrackedIds(Get(lastRun).before) = {"s1"}
  /\ Get(lastRun).selected = <<"s2">>

----------------------------------------------------------------------------
(* Independence of message IDs on the live path, checked under Spec *)

\* all the plugin holds about message m: its buffers, its pending timer and
\* whether it is marked as forwarded
MessageState(m) ==
  [text |-> BufGet(messagePartsText, m),
   tools |-> BufGet(messageToolParts, m),
   metadata |-> BufGet(messageMetadata, m),
   handle |-> BufGet(syncTimeouts, m),
   pending |-> {t.id : t \in PendingTimers(m)},
   forwarded |-> m \in syncedMessages]

\* the messages about which the step changes something
Touched == {m \in MsgIds : MessageState(m)' # MessageState(m)}

\* C40: an event or a timer expiry changes the buffered text, the tool parts,
\* the metadata, the pending timer and the forwarded status of one message ID
\* at most, an expiry of no other message ID than its own, and the request
\* issued for a message is made of what is held for that message alone: it is
\* the same however its events interleave with those of other messages.
C40_MessagesAreIndependent ==
  [][/\ Cardinality(Touched) <= 1
     /\ \A m \in MsgIds :
          /\ TimerExpiryFor(m) => Touched \subseteq {m}
          /\ ForwardsNow(m) =>
               LET r == outbox'[Len(outbox')] IN
                 /\ r.textContent = BufferedText(m)
                 /\ r.parts = BufGet(messageToolParts, m)
                 /\ r.sessionExternalId = messageMetadata[m].sessionId
                 /\ outbox' = Append(outbox, r)]_vars

\* the timer of m1 is pending over a buffered text while m2, whose events
\* came in between, has been forwarded with its own text and tool part
C40_Witness ==
  /\ "m1" \in DOMAIN messagePartsText
  /\ messagePartsText["m1"] = << "Fix the bug" >>
  /\ PendingTimers("m1") # {}
  /\ "m1" \notin syncedMessages
  /\ "m2" \in syncedMessages
  /\ \E i \in MessageRequests("m2") :
       /\ outbox[i].textContent = "Fix the bug"
       /\ Has(outbox[i].parts)
       /\ Len(Get(outbox[i].parts)) = 1

=============================================================================
